---- MODULE Spec2Model ----
(***************************************************************************)
(* Verification model of mobile-automator: the single-worker sync job      *)
(* runner (src/web/jobRunner.ts over src/web/db.ts), the translate /       *)
(* shorten retry pipeline (src/web/server.ts, src/index.ts) and the        *)
(* browser's pending-change queue with its apply handler (web/ui/App.tsx)  *)
(* and the locale apply route of the server (src/web/server.ts).           *)
(***************************************************************************)
EXTENDS Integers, Sequences, FiniteSets, TLC

(***************************************************************************)
(* Part 1.  Sync job runner                                                *)
(***************************************************************************)

\* Bounds of the job-runner model.
MaxJobs == 2
MaxEnqueues == 3

Apps == {1, 2}
JobIds == 1 .. MaxJobs
StoreScopes == {"app_store", "play_store", "both"}

VARIABLES
    apps,        \* rows of table apps (ids)
    jobs,        \* rows of table sync_jobs, by id; NoJob where there is no row
    logs,        \* rows of table sync_job_logs, by job id, in insertion order
    nextJobId,   \* AUTOINCREMENT counter of sync_jobs
    queue,       \* SyncJobRunner.queue
    running,     \* SyncJobRunner.running
    drains,      \* the live drain() coroutines, by slot: where each stands
                 \* (pc), the jobId of its suspended runJob call and the
                 \* storeScope that call read
    nEnq,        \* history: number of enqueue calls so far
    tickets,     \* history: for each entry of queue, the number of the
                 \* enqueue call that pushed it
    served,      \* history: the number of the enqueue call whose entry was
                 \* shifted last
    \* Part 2: one translation run over the fields of one target locale
    tcfg,        \* the options of the run
    tpc,         \* where the run stands
    tidx,        \* index of the field being processed
    attempt,     \* the retry wrapper's attempt counter
    translated,  \* the text in hand for the current field
    updates,     \* by field, the text kept for the locale (NoText: none)
    skippedF,    \* fields reported as skipped (still over the limit)
    errF,        \* fields reported with an error event
    stillOver,   \* history: fields whose shortened text measured over the limit
    wrapCalls,   \* history: by field, calls of translateWithRetry / shortenWithRetry
    lastWrap,    \* history: how the last retry wrapper call ended
    \* Part 3: the change queue of the web UI
    pendingStoreChanges,  \* the queue: a map from change key to pending change
    editRun,     \* history: how far a create, edit, revert sequence of user
                 \* edits on one key has come in a queue holding only that key
    clearedByRemove, \* history: the field changes the last step deleted
                     \* because it queued the removal of their locale
    \* Part 4: applying the queue (App.tsx handleApplyPendingChanges)
    applyPc,     \* "idle", or "sent" while the apply request is awaited
    sent,        \* the changes of the request in flight
    applyReport, \* what the handler last reported to the user
    \* Part 5: POST /api/apps/:id/locales/apply for one app (server.ts)
    appPresent,   \* the app's row is in table apps
    storeLocales, \* rows of table store_locales of the app: by store, the locales
    routePc,      \* "idle", "writing" while the storefront writes are awaited, "done"
    localeChanges, \* the parsed changes of the call
    response,     \* what the call answered
    listAtCall,   \* history: storeLocales when the call arrived
    \* Part 6: conversions of one locale code (translate.ts)
    locVals,      \* the code given, followed by the results of the conversions
    locOps,       \* the conversions applied so far
    \* Part 7: one row of a prepare-diff route (server.ts)
    diffRow,      \* the row compared: direction, what is stored for the
                  \* target locale, the source texts and the target texts
    diffOut,      \* what the route put out for the row
    \* Part 8: one batch of the generate-translations route (server.ts)
    bcfg,         \* the fields with source text and the work list
    bpc,          \* where the route stands
    bkind,        \* the wrapper call in flight: "translate", "shorten" or "none"
    bloc,         \* index of the locale in the loop of the phase
    bfld,         \* index of the field in remainingFields
    translatedTitles, \* by locale, the title translated in phase 1 ("none": none)
    translatedFields, \* the fields translated for the locale of phase 2
    events,       \* the lines written to the response stream
    calls,        \* history: the wrapper calls started, in order
    translatedCount, \* translatedCount: the locales with a locale_done event
    \* Part 9: the loop of a prepare-diff route over its source rows
    loopDirection, \* which route runs
    loopRows,     \* the rows of the source store, one per locale
    loopIdx,      \* index of the row the loop is at
    outEntries,   \* entries: by row index pushed, in order
    outSkipped,   \* skipped: the records pushed, in order
    \* Part 10: POST /api/apps/:id/locales/sync for one app (server.ts)
    syncApp,      \* the app's row is in table apps
    dbLocales,    \* table store_locales of the app: by store, the list
    dbDetails,    \* table store_locale_details of the app: by store, the
                  \* detail stored for each locale that has one
    syncPc,       \* "idle", "appStore" / "playStore" while that fetch is
                  \* awaited, "done"
    syncScope,    \* storeScope of the call
    syncPayload,  \* payload.appStore / payload.playStore
    lastSnapshot, \* history: by store, the snapshot fetched last
    \* Part 11: the access token cache of a storefront client
    tkClient,     \* "asc" (AscClient, index.ts) or "gpc" (GpcClient, gpcClient.ts)
    tkClock,      \* Math.floor(Date.now() / 1000)
    tkTicks,      \* history: how often the clock has advanced
    tokenValue,   \* tokenValue / accessToken: the cached token (0: undefined)
    tokenExpiry,  \* tokenExpiry: its recorded expiry (0: undefined)
    tkCalls,      \* the request() calls: idle, or issuing with the `now` read
    tkIssued,     \* history: number of tokens issued so far
    tkSent,       \* history: the request sent last
    \* Part 12: the per-locale record of an App Store snapshot
    snapLocale,   \* the AppStoreLocaleSnapshot built last
    \* Part 13: the selected app of the page and the runs started for it
    uiSelected,   \* selectedAppId (0: null)
    uiQueue,      \* the queued changes, each with the app it was produced for
    uiRun,        \* the sync or translation run in flight (isApplyingConfig)
    \* Part 14: the Google Play edit of a command
    gpcCmd,       \* the command: gpc-sync with its options, or a snapshot fetch
    gpcPc,        \* where the command stands
    gpcIdx,       \* gpc-sync: the target locale of the loop
    gpcEdit,      \* history: what happened to the edit of the command
    \* Part 15: the automatic diff after a sync
    adDetails,    \* by store, the detail of the locale both stores list
    adPc,         \* where syncAndRefresh and the apply after it stand
    \* Part 16: the locale lists of the page
    baselineLocales,\* iosLocales / playLocales: by store, the listed locales
    \* Part 17: a sync and an apply of one app and store side by side
    storefrontLocales, \* the locales the storefront holds for the app
    storedLocales,     \* the rows of store_locales for the app and store
    applyReq,          \* the apply request: where it stands, its change
    syncReq            \* the sync request: where it stands, its snapshot

jobVars == <<apps, jobs, logs, nextJobId, queue, running, drains,
             nEnq, tickets, served>>

\* A text as the text service returns it: n characters of w bytes each.
NoText == [n |-> 0, w |-> 0]
NoConfig == [pipeline |-> "none", strict |-> FALSE, maxRetries |-> 0,
             hasLimit |-> FALSE, kwUnit |-> "chars", src |-> <<>>]
NoWrap == [kind |-> "none", calls |-> 0, threw |-> FALSE, status |-> "none"]
AllFields == {"appName", "subtitle", "keywords", "description", "whatsNew",
              "title", "shortDescription", "fullDescription"}

\* The translation part at rest (no run configured).
TrIdle ==
    /\ tcfg = NoConfig
    /\ tpc = "off"
    /\ tidx = 0
    /\ attempt = 0
    /\ translated = NoText
    /\ updates = [f \in AllFields |-> NoText]
    /\ skippedF = {}
    /\ errF = {}
    /\ stillOver = {}
    /\ wrapCalls = [f \in AllFields |-> [translate |-> 0, shorten |-> 0]]
    /\ lastWrap = NoWrap

\* The empty map.
EmptyMap == [k \in {} |-> 0]
\* The change queue as App mounts: useState({}).
QueueIdle ==
    /\ pendingStoreChanges = EmptyMap
    /\ editRun = 0
    /\ clearedByRemove = 0

NoReport == [kind |-> "none", store |-> "", locale |-> "", missing |-> {},
             succeeded |-> {}, failed |-> {}]
\* No apply has been requested.
ApplyIdle ==
    /\ applyPc = "idle"
    /\ sent = {}
    /\ applyReport = NoReport

NoResponse == [status |-> "none", succeeded |-> <<>>, failed |-> <<>>]
\* No apply call has arrived; the app has no locales stored.
RouteIdle ==
    /\ appPresent = TRUE
    /\ storeLocales = [s \in {"app_store", "play_store"} |-> {}]
    /\ listAtCall = storeLocales
    /\ routePc = "idle"
    /\ localeChanges = <<>>
    /\ response = NoResponse

\* No locale code is being converted.
LocaleIdle ==
    /\ locVals = <<>>
    /\ locOps = <<>>

NoRow == [direction |-> "none"]
NoOutput == [kind |-> "none", isNewLocale |-> FALSE, fields |-> {}]
\* No diff has been asked for.
DiffIdle ==
    /\ diffRow = NoRow
    /\ diffOut = NoOutput

NoBatch == [sourceTexts |-> {}, localeWorkList |-> <<>>]
\* No translation batch has been requested.
BatchIdle ==
    /\ bcfg = NoBatch
    /\ bpc = "off"
    /\ bkind = "none"
    /\ bloc = 0
    /\ bfld = 0
    /\ translatedTitles = [l \in {} |-> "none"]
    /\ translatedFields = {}
    /\ events = <<>>
    /\ calls = <<>>
    /\ translatedCount = 0

\* No diff loop runs.
LoopIdle ==
    /\ loopDirection = "none"
    /\ loopRows = <<>>
    /\ loopIdx = 0
    /\ outEntries = <<>>
    /\ outSkipped = <<>>

NoSnapshot == [locales |-> <<>>, appInfoNames |-> {}, fetchedAt |-> 0]
NoPayload == [app_store |-> "none", play_store |-> "none"]
\* No sync call has arrived; nothing is stored for the app.
SyncIdle ==
    /\ syncApp = TRUE
    /\ dbLocales = [s \in {"app_store", "play_store"} |-> <<>>]
    /\ dbDetails = [s \in {"app_store", "play_store"} |-> [l \in {} |-> 0]]
    /\ syncPc = "idle"
    /\ syncScope = "none"
    /\ syncPayload = NoPayload
    /\ lastSnapshot = [s \in {"app_store", "play_store"} |-> NoSnapshot]

NoRequest == [token |-> 0, expiry |-> 0, at |-> 0, cached |-> FALSE]
\* No storefront client has been constructed.
TokenIdle ==
    /\ tkClient = "none"
    /\ tkClock = 0
    /\ tkTicks = 0
    /\ tokenValue = 0
    /\ tokenExpiry = 0
    /\ tkCalls = <<>>
    /\ tkIssued = 0
    /\ tkSent = NoRequest

NoSnapLocale == [built |-> FALSE]
\* No App Store localization has been turned into a snapshot record.
SnapIdle == snapLocale = NoSnapLocale

NoRun == [kind |-> "none", app |-> 0, pc |-> "none"]
\* The page has not been opened.
PageIdle ==
    /\ uiSelected = 0
    /\ uiQueue = {}
    /\ uiRun = NoRun

NoCmd == [kind |-> "none", dryRun |-> FALSE, locales |-> 0]
NoEdit == [opened |-> FALSE, written |-> 0, committed |-> FALSE, discards |-> 0,
           discarded |-> FALSE]
\* No command that opens an edit runs.
EditIdle ==
    /\ gpcCmd = NoCmd
    /\ gpcPc = "off"
    /\ gpcIdx = 0
    /\ gpcEdit = NoEdit

\* No sync has refreshed the page.
AutoDiffIdle ==
    /\ adDetails = <<>>
    /\ adPc = "off"

\* The locale lists of no app are loaded.
ListsIdle == baselineLocales = <<>>

NoApplyReq == [pc |-> "none", action |-> "none", locale |-> "", ok |-> FALSE]
NoSyncReq == [pc |-> "none", locales |-> {}]
\* No sync and no apply request has arrived.
RaceIdle ==
    /\ storefrontLocales = {}
    /\ storedLocales = {}
    /\ applyReq = NoApplyReq
    /\ syncReq = NoSyncReq

\* The variables of the other parts, which the job runner leaves alone.
trVars == <<tcfg, tpc, tidx, attempt, translated, updates, skippedF, errF,
            stillOver, wrapCalls, lastWrap>>
qVars == <<pendingStoreChanges, editRun, clearedByRemove>>
aVars == <<applyPc, sent, applyReport>>
sVars == <<appPresent, storeLocales, routePc, localeChanges, response, listAtCall>>
lVars == <<locVals, locOps>>
dVars == <<diffRow, diffOut>>
bVars == <<bcfg, bpc, bkind, bloc, bfld, translatedTitles, translatedFields,
           events, calls, translatedCount>>
pVars == <<loopDirection, loopRows, loopIdx, outEntries, outSkipped>>
yVars == <<syncApp, dbLocales, dbDetails, syncPc, syncScope, syncPayload,
           lastSnapshot>>
kVars == <<tkClient, tkClock, tkTicks, tokenValue, tokenExpiry, tkCalls, tkIssued, tkSent>>
nVars == <<snapLocale>>
uVars == <<uiSelected, uiQueue, uiRun>>
gVars == <<gpcCmd, gpcPc, gpcIdx, gpcEdit>>
xVars == <<adDetails, adPc>>
zVars == <<baselineLocales>>
cVars == <<storefrontLocales, storedLocales, applyReq, syncReq>>
notJobVars == <<trVars, qVars, aVars, sVars, lVars, dVars, bVars, pVars, yVars, kVars, nVars, uVars, gVars, xVars, zVars, cVars>>
notTrVars == <<jobVars, qVars, aVars, sVars, lVars, dVars, bVars, pVars, yVars, kVars, nVars, uVars, gVars, xVars, zVars, cVars>>
notQVars == <<jobVars, trVars, aVars, sVars, lVars, dVars, bVars, pVars, yVars, kVars, nVars, uVars, gVars, xVars, zVars, cVars>>
notQAVars == <<jobVars, trVars, sVars, lVars, dVars, bVars, pVars, yVars, kVars, nVars, uVars, gVars, xVars, zVars, cVars>>
notSVars == <<jobVars, trVars, qVars, aVars, lVars, dVars, bVars, pVars, yVars, kVars, nVars, uVars, gVars, xVars, zVars, cVars>>
notLVars == <<jobVars, trVars, qVars, aVars, sVars, dVars, bVars, pVars, yVars, kVars, nVars, uVars, gVars, xVars, zVars, cVars>>
notDVars == <<jobVars, trVars, qVars, aVars, sVars, lVars, bVars, pVars, yVars, kVars, nVars, uVars, gVars, xVars, zVars, cVars>>
notBVars == <<jobVars, trVars, qVars, aVars, sVars, lVars, dVars, pVars, yVars, kVars, nVars, uVars, gVars, xVars, zVars, cVars>>
notPVars == <<jobVars, trVars, qVars, aVars, sVars, lVars, dVars, bVars, yVars, kVars, nVars, uVars, gVars, xVars, zVars, cVars>>
notYVars == <<jobVars, trVars, qVars, aVars, sVars, lVars, dVars, bVars, pVars, kVars, nVars, uVars, gVars, xVars, zVars, cVars>>
notKVars == <<jobVars, trVars, qVars, aVars, sVars, lVars, dVars, bVars, pVars, yVars, nVars, uVars, gVars, xVars, zVars, cVars>>
notNVars == <<jobVars, trVars, qVars, aVars, sVars, lVars, dVars, bVars, pVars, yVars, kVars, uVars, gVars, xVars, zVars, cVars>>
notUVars == <<jobVars, trVars, qVars, aVars, sVars, lVars, dVars, bVars, pVars, yVars, kVars, nVars, gVars, xVars, zVars, cVars>>
notGVars == <<jobVars, trVars, qVars, aVars, sVars, lVars, dVars, bVars, pVars, yVars, kVars, nVars, uVars, xVars, zVars, cVars>>
notXVars == <<jobVars, trVars, qVars, aVars, sVars, lVars, dVars, bVars, pVars, yVars, kVars, nVars, uVars, gVars, zVars, cVars>>
notQXVars == <<jobVars, trVars, aVars, sVars, lVars, dVars, bVars, pVars, yVars, kVars, nVars, uVars, gVars, zVars, cVars>>
notZVars == <<jobVars, trVars, qVars, aVars, sVars, lVars, dVars, bVars, pVars, yVars, kVars, nVars, uVars, gVars, xVars, cVars>>
notQZVars == <<jobVars, trVars, aVars, sVars, lVars, dVars, bVars, pVars, yVars, kVars, nVars, uVars, gVars, xVars, cVars>>
notCVars == <<jobVars, trVars, qVars, aVars, sVars, lVars, dVars, bVars, pVars, yVars, kVars, nVars, uVars, gVars, xVars, zVars>>

\* Slots for drain() coroutines that are alive at the same time.
MaxDrains == 2
DrainIds == 1 .. MaxDrains
\* pc of a drain coroutine: "none" no coroutine in the slot (never started,
\* returned or rejected), "loop" runnable at the head of the while loop,
\* "appStore" / "playStore" / "workload" suspended at that await of
\* executePreflight.
AwaitPcs == {"appStore", "playStore", "workload"}
NoDrain == [pc |-> "none", cur |-> 0, scope |-> "none"]
LoopDrain == [pc |-> "loop", cur |-> 0, scope |-> "none"]
FreeSlots(D) == {d \in DrainIds : D[d].pc = "none"}
Min(S) == CHOOSE x \in S : \A y \in S : x <= y

NoJob == [appId |-> 0, storeScope |-> "none", status |-> "absent",
          errorMessage |-> "", hasSummary |-> FALSE]

\* Error texts thrown by the awaited store calls and by SQLite.
AscError == "Cannot fetch App Store snapshot"
PlayError == "Cannot fetch Play snapshot"
WorkloadError == "workload failed"
AppNotFound == "App not found for job"
FkError == "FOREIGN KEY constraint failed"

JobExists(J, j) == J[j].status # "absent"

\* The job runner and its database as the server starts.
JobsIdle ==
    /\ apps = Apps
    /\ jobs = [j \in JobIds |-> NoJob]
    /\ logs = [j \in JobIds |-> <<>>]
    /\ nextJobId = 1
    /\ queue = <<>>
    /\ running = FALSE
    /\ drains = [d \in DrainIds |-> NoDrain]
    /\ nEnq = 0
    /\ tickets = <<>>
    /\ served = 0

InitJobs == JobsIdle /\ TrIdle /\ QueueIdle /\ ApplyIdle /\ RouteIdle /\ LocaleIdle /\ DiffIdle /\ BatchIdle /\ LoopIdle /\ SyncIdle /\ TokenIdle /\ SnapIdle /\ PageIdle /\ EditIdle /\ AutoDiffIdle /\ ListsIdle /\ RaceIdle

\* db.ts createSyncJob: INSERT ... status 'queued'.
createSyncJob(J, id, a, scope) ==
    [J EXCEPT ![id] = [appId |-> a, storeScope |-> scope, status |-> "queued",
                       errorMessage |-> "", hasSummary |-> FALSE]]

\* db.ts markSyncJobRunning: UPDATE ... WHERE id = ? (no row, no effect).
markSyncJobRunning(J, j) ==
    IF JobExists(J, j) THEN [J EXCEPT ![j].status = "running"] ELSE J

\* db.ts markSyncJobSuccess: status, summary_json, error_message = NULL.
markSyncJobSuccess(J, j) ==
    IF JobExists(J, j)
    THEN [J EXCEPT ![j].status = "succeeded", ![j].hasSummary = TRUE,
                   ![j].errorMessage = ""]
    ELSE J

\* db.ts markSyncJobFailure: status, error_message.
markSyncJobFailure(J, j, msg) ==
    IF JobExists(J, j)
    THEN [J EXCEPT ![j].status = "failed", ![j].errorMessage = msg]
    ELSE J

\* db.ts appendSyncJobLog: the INSERT carries a foreign key on sync_jobs(id),
\* so it throws when the job row does not exist.
CanAppendLog(J, j) == JobExists(J, j)
appendSyncJobLog(L, j, level, msg) ==
    [L EXCEPT ![j] = Append(@, [level |-> level, message |-> msg])]

\* db.ts deleteApp: DELETE FROM apps; sync_jobs and sync_job_logs cascade.
deleteAppJobs(J, a) == [j \in JobIds |-> IF J[j].appId = a THEN NoJob ELSE J[j]]
deleteAppLogs(L, J, a) == [j \in JobIds |-> IF J[j].appId = a THEN <<>> ELSE L[j]]

\* JavaScript runs a continuation to completion, and promise continuations
\* (microtasks) before any request handler or I/O callback: while a drain
\* coroutine is runnable, no request and no fetch completion is delivered.
MicrotaskPending == \E d \in DrainIds : drains[d].pc = "loop"

drainCall_NoGuard(D) ==
    IF FreeSlots(D) = {} THEN D ELSE [D EXCEPT ![Min(FreeSlots(D))] = LoopDrain]

\* jobRunner.ts drain, lines 19-20: return when a drain is active, else take
\* the flag and enter the loop as a new coroutine.
drainCall(D) ==
    IF running THEN D ELSE [D EXCEPT ![Min(FreeSlots(D))] = LoopDrain]

enqueuePush_Front(q, jobId) == <<jobId>> \o q

\* jobRunner.ts enqueue, line 14: this.queue.push(jobId).
enqueuePush(q, jobId) == Append(q, jobId)

\* jobRunner.ts enqueue(jobId): push, then void this.drain().
EnqueueCall(jobId) ==
    /\ queue' = enqueuePush(queue, jobId)
    /\ tickets' = enqueuePush(tickets, nEnq + 1)
    /\ nEnq' = nEnq + 1
    /\ drains' = drainCall(drains)
    /\ running' = TRUE

\* The public SyncJobRunner.enqueue with any number: 0 (falsy), the id of a
\* job that does not exist, or of one that was enqueued before.
Enqueue(jobId) ==
    /\ ~MicrotaskPending
    /\ nEnq < MaxEnqueues
    /\ EnqueueCall(jobId)
    /\ UNCHANGED <<apps, jobs, logs, nextJobId, served>>
    /\ UNCHANGED notJobVars

\* server.ts POST /api/apps/:id/sync-jobs: mustGetApp, createSyncJob,
\* jobRunner.enqueue(job.id).
PostSyncJob(a, scope) ==
    /\ ~MicrotaskPending
    /\ a \in apps
    /\ nextJobId <= MaxJobs
    /\ nEnq < MaxEnqueues
    /\ jobs' = createSyncJob(jobs, nextJobId, a, scope)
    /\ nextJobId' = nextJobId + 1
    /\ EnqueueCall(nextJobId)
    /\ UNCHANGED <<apps, logs, served>>
    /\ UNCHANGED notJobVars

\* server.ts DELETE /api/apps/:id: mustGetApp, repo.deleteApp.
DeleteApp(a) ==
    /\ ~MicrotaskPending
    /\ a \in apps
    /\ apps' = apps \ {a}
    /\ jobs' = deleteAppJobs(jobs, a)
    /\ logs' = deleteAppLogs(logs, jobs, a)
    /\ UNCHANGED <<nextJobId, queue, running, drains, nEnq, tickets, served>>
    /\ UNCHANGED notJobVars

runJobCatch_NoMark(J, L, j, msg) ==
    IF CanAppendLog(J, j)
    THEN [jobs |-> J, logs |-> appendSyncJobLog(L, j, "error", msg),
          escaped |-> FALSE]
    ELSE [jobs |-> J, logs |-> L, escaped |-> TRUE]

\* jobRunner.ts runJob, lines 56-60: the catch block.  markSyncJobFailure, then
\* appendSyncJobLog, which throws out of runJob when the job row is gone.
runJobCatch(J, L, j, msg) ==
    LET J2 == markSyncJobFailure(J, j, msg)
    IN  IF CanAppendLog(J2, j)
        THEN [jobs |-> J2, logs |-> appendSyncJobLog(L, j, "error", msg),
              escaped |-> FALSE]
        ELSE [jobs |-> J2, logs |-> L, escaped |-> TRUE]

\* jobRunner.ts runJob, lines 54-55: the end of the try block; a throw of
\* appendSyncJobLog lands in the catch block.
runJobSucceed(J, L, j) ==
    LET J2 == markSyncJobSuccess(J, j)
    IN  IF CanAppendLog(J2, j)
        THEN [jobs |-> J2,
              logs |-> appendSyncJobLog(L, j, "info", "Job completed successfully."),
              escaped |-> FALSE]
        ELSE runJobCatch(J2, L, j, FkError)

\* jobRunner.ts drain, lines 26-30: runJob has settled.  When it returned the
\* loop goes on; when it threw, finally clears the flag and drain() rejects.
AfterRunJob(d, r) ==
    /\ jobs' = r.jobs
    /\ logs' = r.logs
    /\ IF r.escaped
       THEN /\ drains' = [drains EXCEPT ![d] = NoDrain]
            /\ running' = FALSE
       ELSE /\ drains' = [drains EXCEPT ![d] = LoopDrain]
            /\ UNCHANGED running

\* jobRunner.ts runJob lines 34-52 up to the first await of executePreflight.
RunJobStart(d, jobId) ==
    LET job == jobs[jobId]
        J1 == markSyncJobRunning(jobs, jobId)
        L1 == appendSyncJobLog(logs, jobId, "info", "Job started.")
        first == IF job.storeScope \in {"app_store", "both"}
                 THEN "appStore" ELSE "playStore"
    IN  IF job.appId \notin apps
        THEN AfterRunJob(d, runJobCatch(J1, L1, jobId, AppNotFound))
        ELSE /\ jobs' = J1
             /\ logs' = appendSyncJobLog(L1, jobId, "info",
                            IF first = "appStore"
                            THEN "Fetching App Store snapshot for preflight."
                            ELSE "Fetching Google Play snapshot for preflight.")
             /\ drains' = [drains EXCEPT ![d] =
                              [pc |-> first, cur |-> jobId, scope |-> job.storeScope]]
             /\ UNCHANGED running

\* jobRunner.ts drain, lines 23-30: one turn of the while loop.
DrainStep(d) ==
    /\ drains[d].pc = "loop"
    /\ UNCHANGED <<apps, nextJobId, nEnq>>
    /\ UNCHANGED notJobVars
    /\ IF queue = <<>>
       THEN /\ running' = FALSE
            /\ drains' = [drains EXCEPT ![d] = NoDrain]
            /\ UNCHANGED <<jobs, logs, queue, tickets, served>>
       ELSE LET jobId == Head(queue)
            IN  /\ queue' = Tail(queue)
                /\ served' = Head(tickets)
                /\ tickets' = Tail(tickets)
                /\ IF jobId = 0 \/ ~JobExists(jobs, jobId)
                   THEN UNCHANGED <<jobs, logs, running, drains>>
                   ELSE RunJobStart(d, jobId)

\* jobRunner.ts executePreflight, line 108: fetchAppStoreSnapshot settles.
AppStoreFetchDone(d, ok) ==
    /\ drains[d].pc = "appStore"
    /\ UNCHANGED <<apps, nextJobId, queue, nEnq, tickets, served>>
    /\ UNCHANGED notJobVars
    /\ LET j == drains[d].cur
       IN  IF ~ok
           THEN AfterRunJob(d, runJobCatch(jobs, logs, j, AscError))
           ELSE IF drains[d].scope = "both"
           THEN IF CanAppendLog(jobs, j)
                THEN /\ logs' = appendSyncJobLog(logs, j, "info",
                                    "Fetching Google Play snapshot for preflight.")
                     /\ drains' = [drains EXCEPT ![d].pc = "playStore"]
                     /\ UNCHANGED <<jobs, running>>
                ELSE AfterRunJob(d, runJobCatch(jobs, logs, j, FkError))
           ELSE /\ drains' = [drains EXCEPT ![d].pc = "workload"]
                /\ UNCHANGED <<jobs, logs, running>>

\* jobRunner.ts executePreflight, line 117: fetchPlayStoreSnapshot settles.
PlayStoreFetchDone(d, ok) ==
    /\ drains[d].pc = "playStore"
    /\ UNCHANGED <<apps, nextJobId, queue, nEnq, tickets, served>>
    /\ UNCHANGED notJobVars
    /\ LET j == drains[d].cur
       IN  IF ~ok
           THEN AfterRunJob(d, runJobCatch(jobs, logs, j, PlayError))
           ELSE /\ drains' = [drains EXCEPT ![d].pc = "workload"]
                /\ UNCHANGED <<jobs, logs, running>>

\* jobRunner.ts executePreflight, line 120: computeWorkload settles; then
\* runJob lines 54-60.
WorkloadDone(d, ok) ==
    /\ drains[d].pc = "workload"
    /\ UNCHANGED <<apps, nextJobId, queue, nEnq, tickets, served>>
    /\ UNCHANGED notJobVars
    /\ LET j == drains[d].cur
       IN  IF ~ok
           THEN AfterRunJob(d, runJobCatch(jobs, logs, j, WorkloadError))
           ELSE AfterRunJob(d, runJobSucceed(jobs, logs, j))

NextJobs ==
    \/ \E jobId \in 0 .. MaxJobs : Enqueue(jobId)
    \/ \E a \in Apps, scope \in StoreScopes : PostSyncJob(a, scope)
    \/ \E a \in Apps : DeleteApp(a)
    \/ \E d \in DrainIds : DrainStep(d)
    \/ \E d \in DrainIds, ok \in BOOLEAN : AppStoreFetchDone(d, ok)
    \/ \E d \in DrainIds, ok \in BOOLEAN : PlayStoreFetchDone(d, ok)
    \/ \E d \in DrainIds, ok \in BOOLEAN : WorkloadDone(d, ok)

vars == <<jobVars, notJobVars>>

SpecJobs == InitJobs /\ [][NextJobs]_vars

(***************************************************************************)
(* Claims about the job runner (specification SpecJobs)                    *)
(***************************************************************************)

Terminal == {"succeeded", "failed"}
RunningJobs == {j \in JobIds : jobs[j].status = "running"}
Executing == {d \in DrainIds : drains[d].pc \in AwaitPcs}
QueuedIds(q) == {q[i] : i \in 1 .. Len(q)}

\* A step of the status of one sync_jobs row along queued -> running ->
\* succeeded | failed (the row may also be created, or deleted with its app).
LinearStep(s, t) ==
    \/ s = t
    \/ s = "absent" /\ t = "queued"
    \/ s = "queued" /\ t = "running"
    \/ s = "running" /\ t \in Terminal
    \/ t = "absent"

\* C1: for any sequence of enqueue calls with any job ids, the persisted
\* status of every job only moves queued -> running -> succeeded | failed and
\* never leaves a terminal status.
C1_StatusIsLinear ==
    [][\A j \in JobIds : LinearStep(jobs[j].status, jobs'[j].status)]_vars

\* C2: at most one job is executing at any time: at most one runJob call is
\* suspended between its mark-running and its terminal mark, and at most one
\* row has status running.
C2_AtMostOneExecuting ==
    /\ Cardinality(Executing) <= 1
    /\ Cardinality(RunningJobs) <= 1

\* C2 witness: a job is executing while an enqueue call has arrived during
\* its await and left another existing job waiting.
C2_Witness ==
    /\ Executing # {}
    /\ RunningJobs # {}
    /\ \E i \in 1 .. Len(queue) :
          queue[i] \in JobIds /\ jobs[queue[i]].status = "queued"

\* C3: jobs start in the order of their enqueue calls, and one at a time:
\* the queue always holds exactly the entries pushed after the one served
\* last, in push order; a job that waits is in the queue; a job is marked
\* running only when no other job is running; and a running job leaves
\* that status only by its own terminal mark (or the deletion of its row).
C3_FifoNoPreemption ==
    [][ /\ Len(queue') = Len(tickets')
        /\ \A i \in 1 .. Len(tickets') : tickets'[i] = served' + i
        /\ \A j \in JobIds : jobs'[j].status = "queued" => j \in QueuedIds(queue')
        /\ \A j \in JobIds :
              (jobs'[j].status = "running" /\ jobs[j].status # "running")
                 => /\ RunningJobs = {}
                    /\ served' = served + 1
                    /\ Head(queue) = j
        /\ \A j \in JobIds :
              (jobs[j].status = "running" /\ jobs'[j].status # "running")
                 => jobs'[j].status \in Terminal \cup {"absent"}
      ]_vars

\* C3 witness: the second entry of the queue has been started after the
\* first one reached a terminal status, with a third entry still waiting.
C3_Witness ==
    /\ served = 2
    /\ RunningJobs # {}
    /\ \E j \in JobIds : jobs[j].status \in Terminal
    /\ Len(queue) = 1

\* The error a runJob call catches when the await it is suspended at rejects.
ThrownAt(p) ==
    CASE p = "appStore" -> AscError
      [] p = "playStore" -> PlayError
      [] p = "workload" -> WorkloadError
      [] OTHER -> AppNotFound

\* C4: no execution of runJob ends with the job's status still running (a
\* row with status running always belongs to a runJob call suspended at an
\* await), and a job that is marked failed carries the text of the error
\* that was thrown.
C4_NeverLeftRunning ==
    [][ /\ \A j \in JobIds :
              jobs'[j].status = "running"
                 => \E d \in DrainIds : drains'[d].pc \in AwaitPcs /\ drains'[d].cur = j
        /\ \A j \in JobIds :
              (jobs[j].status = "running" /\ jobs'[j].status = "failed")
                 => \E d \in DrainIds :
                       /\ drains[d].cur = j
                       /\ jobs'[j].errorMessage = ThrownAt(drains[d].pc)
      ]_vars

\* C4 witness: a job whose workload computation threw is failed with that
\* error's text, and the worker is back at the head of its loop.
C4_Witness ==
    /\ \E j \in JobIds :
          jobs[j].status = "failed" /\ jobs[j].errorMessage = WorkloadError
    /\ MicrotaskPending

\* A job that exists, has status queued and waits in the queue.
WaitingJobs(q, J) == {j \in JobIds : j \in QueuedIds(q) /\ J[j].status = "queued"}

\* C5: one job's failure never stops the worker: when a runJob call settles,
\* however it ends, the drain that awaited it goes on with its loop as long
\* as a job waits behind the one that failed.
C5_FailureNeverStopsWorker ==
    [][\A d \in DrainIds :
          (drains[d].pc \in AwaitPcs /\ drains'[d].pc \notin AwaitPcs)
             => (drains'[d].pc = "loop" \/ WaitingJobs(queue', jobs') = {})
      ]_vars

\* C6: the runner is never idle (running = false, no drain active) while a
\* job waits in its queue.
C6_NeverIdleWithWork ==
    (running = FALSE \/ \A d \in DrainIds : drains[d].pc = "none")
        => WaitingJobs(queue, jobs) = {}

(***************************************************************************)
(* Part 2: the translate-then-shorten pipeline.  One run translates the    *)
(* fields of one target locale: the generate-translations route of the web *)
(* server ("web"), the CLI sync command ("sync") or the CLI gpc-sync       *)
(* command ("gpc").                                                        *)
(***************************************************************************)
FieldLimit == 2
MaxRetriesOpt == 2
\* server.ts translateWithRetry / shortenWithRetry: maxRetries = 5, and no
\* caller passes another value.
WebMaxRetries == 5

FieldsOf(p) ==
    CASE p = "web"  -> <<"appName", "subtitle", "keywords">>
      [] p = "sync" -> <<"description", "whatsNew", "keywords">>
      [] OTHER      -> <<"title", "shortDescription", "fullDescription">>
FieldIdx == 1 .. 3

\* The texts the service may return: within the limit in characters and in
\* bytes, within it in characters only (three-byte characters), over it.
Texts == {[n |-> FieldLimit, w |-> 1], [n |-> FieldLimit, w |-> 3],
          [n |-> FieldLimit + 1, w |-> 1]}
EmptyText == [n |-> 0, w |-> 1]
\* An answer of the text service: a text, a 429 or another error.
Answers == {[status |-> "ok", text |-> t] : t \in Texts}
              \cup {[status |-> st, text |-> NoText] : st \in {"429", "500"}}

\* What the source locale holds for a field: nothing, "" or a text.  The runs
\* explored have a text for every field but at most one.
SrcKinds == {"undefined", "empty", "text"}
Sources(kinds) ==
    {x \in [FieldIdx -> kinds] :
        \A i, j \in FieldIdx : (x[i] # "text" /\ x[j] # "text") => i = j}

\* The web route always has a limit (getTranslatableFields keeps the fields
\* whose rule has maxChars) and no strict mode; a field enters missingFields
\* only with a source text, and the route answers 400 when no field does.
\* The unit of a field comes from the store rules and is left open for
\* keywords.
WebConfigs ==
    {[pipeline |-> "web", strict |-> FALSE, maxRetries |-> WebMaxRetries,
      hasLimit |-> TRUE, kwUnit |-> u, src |-> sr] :
        u \in {"chars", "bytes"},
        sr \in Sources({"undefined", "text"})}
\* The CLI commands: --strict-limits, --max-retries (resolveNonNegativeInt),
\* a limit that resolveLimit may leave undefined.
CliConfigs ==
    {[pipeline |-> p, strict |-> st, maxRetries |-> m, hasLimit |-> h,
      kwUnit |-> IF p = "sync" THEN "bytes" ELSE "chars", src |-> sr] :
        p \in {"sync", "gpc"}, st \in BOOLEAN, m \in 0 .. MaxRetriesOpt,
        h \in BOOLEAN, sr \in Sources(SrcKinds)}

measureFieldLength_CharsOnly(t, unit) == t.n
\* server.ts measureFieldLength.
measureFieldLength(t, unit) == IF unit = "bytes" THEN t.n * t.w ELSE t.n
\* index.ts measureLocalizationFieldLength.
measureLocalizationFieldLength(field, t) ==
    IF field = "keywords" THEN t.n * t.w ELSE t.n
\* The length a pipeline measures for a field: the web route by the rule's
\* unit, sync by measureLocalizationFieldLength, gpc-sync by .length.
Measure(c, f, t) ==
    CASE c.pipeline = "web" ->
             measureFieldLength(t, IF f = "keywords" THEN c.kwUnit ELSE "chars")
      [] c.pipeline = "sync" -> measureLocalizationFieldLength(f, t)
      [] OTHER -> t.n

InitTranslate ==
    /\ JobsIdle
    /\ QueueIdle
    /\ ApplyIdle
    /\ RouteIdle
    /\ LocaleIdle
    /\ DiffIdle
    /\ BatchIdle
    /\ LoopIdle
    /\ SyncIdle
    /\ TokenIdle
    /\ SnapIdle
    /\ PageIdle
    /\ EditIdle
    /\ AutoDiffIdle
    /\ ListsIdle
    /\ RaceIdle
    /\ tcfg \in WebConfigs \cup CliConfigs
    /\ tpc = "field"
    /\ tidx = 1
    /\ attempt = 0
    /\ translated = NoText
    /\ updates = [f \in AllFields |-> NoText]
    /\ skippedF = {}
    /\ errF = {}
    /\ stillOver = {}
    /\ wrapCalls = [f \in AllFields |-> [translate |-> 0, shorten |-> 0]]
    /\ lastWrap = NoWrap

CurField == FieldsOf(tcfg.pipeline)[tidx]

\* The next iteration of the field loop.
NextField ==
    /\ tidx' = tidx + 1
    /\ tpc' = "field"
    /\ attempt' = 0
    /\ translated' = NoText

\* How a run ends: "done" the loop finished, "localeSkipped" the web route
\* broke out of the locale, "aborted" an error left the CLI command.
EndRun(how) ==
    /\ tpc' = how
    /\ attempt' = 0
    /\ translated' = NoText
    /\ UNCHANGED tidx

\* A call of translateWithRetry / shortenWithRetry begins: attempt = 0.
StartWrapper(kind, f, text) ==
    /\ tpc' = kind
    /\ attempt' = 0
    /\ translated' = text
    /\ wrapCalls' = [wrapCalls EXCEPT ![f][kind] = @ + 1]
    /\ UNCHANGED tidx

\* The head of the field loop (server.ts 1678-1747, index.ts 656-684 and
\* 1165-1195): past the last field the run is done; a field without source
\* text is passed over; the CLI writes "" for an empty source text; any other
\* field is handed to translateWithRetry.
FieldStep ==
    /\ tpc = "field"
    /\ IF tidx > Len(FieldsOf(tcfg.pipeline))
       THEN /\ EndRun("done")
            /\ UNCHANGED <<updates, wrapCalls>>
       ELSE CASE tcfg.src[tidx] = "text" ->
                    /\ StartWrapper("translate", CurField, NoText)
                    /\ UNCHANGED updates
              [] tcfg.src[tidx] = "empty" /\ tcfg.pipeline # "web" ->
                    /\ updates' = [updates EXCEPT ![CurField] = EmptyText]
                    /\ NextField
                    /\ UNCHANGED wrapCalls
              [] OTHER ->
                    /\ NextField
                    /\ UNCHANGED <<updates, wrapCalls>>
    /\ UNCHANGED <<tcfg, skippedF, errF, stillOver, lastWrap>>
    /\ UNCHANGED notTrVars

RetryAgain_AnyError(c, att, status) == att + 1 < c.maxRetries
\* Whether a wrapper that got an error with this status at this value of
\* attempt sends the request again.
\*   CLI (index.ts 585, 620, 1111, 1148):
\*       if (err.status === 429 && attempt < maxRetries) { attempt += 1; ... continue; }
\*   web (server.ts 1444-1456):
\*       for (attempt = 0; attempt < maxRetries; attempt++) { ... if (status !== 429) throw err; ... }
RetryAgain(c, att, status) ==
    IF c.pipeline = "web"
    THEN status = "429" /\ att + 1 < c.maxRetries
    ELSE status = "429" /\ att < c.maxRetries

NeedsShorten_Always(c, f, t) == TRUE
\* server.ts 1636 (len > tf.maxChars), index.ts 687 and 1215
\* (limit !== undefined && translatedLength > limit).
NeedsShorten(c, f, t) == c.hasLimit /\ Measure(c, f, t) > FieldLimit

\* The text is kept for the locale (translatedTitles / translatedFields,
\* updates[field]).
KeepText(f, t) ==
    /\ updates' = [updates EXCEPT ![f] = t]
    /\ NextField
    /\ UNCHANGED <<skippedF, errF, stillOver, wrapCalls>>

StillOverLimit_KeepsText(f) == KeepText(f, translated)
\* The text is over the limit after the shorten call (server.ts 1657-1665,
\* index.ts 707-716 and 1231-1240).
StillOverLimit(f) ==
    /\ stillOver' = stillOver \cup {f}
    /\ IF tcfg.pipeline # "web" /\ tcfg.strict
       THEN /\ EndRun("aborted")
            /\ UNCHANGED skippedF
       ELSE /\ skippedF' = skippedF \cup {f}
            /\ NextField
    /\ UNCHANGED <<updates, errF, wrapCalls>>

\* The wrapper returned a text.
WrapperReturned(f, t) ==
    IF tpc = "translate"
    THEN IF NeedsShorten(tcfg, f, t)
         THEN /\ StartWrapper("shorten", f, t)
              /\ UNCHANGED <<updates, skippedF, errF, stillOver>>
         ELSE KeepText(f, t)
    ELSE IF tcfg.hasLimit /\ Measure(tcfg, f, t) > FieldLimit
         THEN StillOverLimit(f)
         ELSE KeepText(f, t)

\* The wrapper threw.  The web route catches per field, writes an error event
\* and, in phase 2 with nothing translated for the locale so far, leaves the
\* locale (server.ts 1687-1690, 1733-1740); the CLI has no catch in the loop.
WrapperThrew(f) ==
    /\ IF tcfg.pipeline = "web"
       THEN /\ errF' = errF \cup {f}
            /\ IF tidx > 1 /\ \A g \in AllFields : updates[g] = NoText
               THEN EndRun("localeSkipped")
               ELSE NextField
       ELSE /\ EndRun("aborted")
            /\ UNCHANGED errF
    /\ UNCHANGED <<updates, skippedF, stillOver, wrapCalls>>

\* One request of the current wrapper call is answered by the text service.
ServiceAnswer(r) ==
    /\ tpc \in {"translate", "shorten"}
    /\ IF r.status = "ok"
       THEN /\ lastWrap' = [kind |-> tpc, calls |-> attempt + 1, threw |-> FALSE,
                            status |-> "ok"]
            /\ WrapperReturned(CurField, r.text)
       ELSE IF RetryAgain(tcfg, attempt, r.status)
            THEN /\ attempt' = attempt + 1
                 /\ UNCHANGED <<tpc, tidx, translated, updates, skippedF, errF,
                                stillOver, wrapCalls, lastWrap>>
            ELSE /\ lastWrap' = [kind |-> tpc, calls |-> attempt + 1,
                                 threw |-> TRUE, status |-> r.status]
                 /\ WrapperThrew(CurField)
    /\ UNCHANGED tcfg
    /\ UNCHANGED notTrVars

NextTranslate ==
    \/ FieldStep
    \/ \E r \in Answers : ServiceAnswer(r)

SpecTranslate == InitTranslate /\ [][NextTranslate]_vars

(***************************************************************************)
(* Claims about the translation pipeline (specification SpecTranslate)     *)
(***************************************************************************)

\* A wrapper sends a request again only after a 429, so a wrapper call that
\* threw a 429 is one whose every request was answered with a 429; the
\* retries are its requests after the first.
RateLimitedOut == lastWrap.threw /\ lastWrap.status = "429"

\* C7: with maxRetries = N and a service that answers every request with a
\* 429, a retry wrapper (translate or shorten; web, sync or gpc-sync) makes
\* exactly N retries after the initial request and then fails with the
\* rate-limit error.
C7_ExactlyNRetries ==
    RateLimitedOut => lastWrap.calls - 1 = tcfg.maxRetries

\* The step starts a shortenWithRetry call for field f.
ShortenStarts(f) == wrapCalls'[f].shorten > wrapCalls[f].shorten

\* The parts of C8 that do not depend on how a still-over field is reported:
\* shortenWithRetry is called at most once per field, only right after the
\* field's one translation measured over the limit, and no request is made
\* for a field whose shortened text was still over the limit.
ShortenOnceOnlyWhenOver ==
    \A f \in AllFields :
        /\ wrapCalls'[f].shorten <= 1
        /\ wrapCalls'[f].translate <= 1
        /\ ShortenStarts(f) =>
              /\ tpc = "translate" /\ CurField = f
              /\ tcfg.hasLimit
              /\ Measure(tcfg, f, translated') > FieldLimit
        /\ f \in stillOver' => ~(tpc' \in {"translate", "shorten"}
                                   /\ FieldsOf(tcfg.pipeline)[tidx'] = f)

\* C8 as stated: ... and a field whose shortened text is still over the
\* limit is reported skipped.
C8_ShortenOnceElseSkipped ==
    [][/\ ShortenOnceOnlyWhenOver
       /\ \A f \in stillOver' : f \in skippedF' /\ updates'[f] = NoText
      ]_vars

\* C8, amended: the shortening call is issued at most once per field and only
\* when the first translation measures over the limit; a field whose
\* shortened text is still over the limit gets no further request and is
\* reported skipped, except in the CLI's strict mode, where the whole command
\* aborts with an error instead.
C8_ShortenOnceElseSkippedOrAbort ==
    [][/\ ShortenOnceOnlyWhenOver
       /\ \A f \in stillOver' :
             /\ updates'[f] = NoText
             /\ IF tcfg.pipeline # "web" /\ tcfg.strict
                THEN tpc' = "aborted" /\ f \notin skippedF'
                ELSE f \in skippedF'
      ]_vars

\* C8 witness: a run that finished after a field was shortened once, was
\* still over the limit and was reported skipped, while a later field was
\* translated and kept.
C8_Witness ==
    /\ tpc = "done"
    /\ \E f \in stillOver \cap skippedF :
          /\ wrapCalls[f] = [translate |-> 1, shorten |-> 1]
          /\ \E g \in AllFields \ {f} : updates[g] \in Texts

(***************************************************************************)
(* Part 3: the change queue of the web UI (App.tsx, pendingStoreChanges).  *)
(***************************************************************************)
MaxPending == 2

Stores == {"app_store", "play_store"}
Locales == {"tr", "de"}
\* Locale strings as a caller may pass them: also padded or blank.
RawLocales == {"tr", " de", " "}
\* Two fields of IOS_FIELD_ORDER, one of PLAY_FIELD_ORDER.
FieldKeys(store) ==
    IF store = "app_store" THEN {"appName", "keywords"} ELSE {"title"}
Values == {"", "a", "b"}

\* String.prototype.trim on the strings above.
Trim(str) ==
    CASE str = " de" -> "de"
      [] str = " " -> ""
      [] OTHER -> str

toStoreChangeKey_NoLocale(store, locale, field) == store \o "::" \o field
\* `${store}::${locale}::${field}`
toStoreChangeKey(store, locale, field) ==
    store \o "::" \o locale \o "::" \o field
\* `${store}::${locale}::__locale__`
toStoreLocaleChangeKey(store, locale) ==
    store \o "::" \o locale \o "::__locale__"

\* PendingStoreFieldChange / PendingStoreLocaleChange.
FieldChange(key, store, locale, field, oldValue, newValue) ==
    [kind |-> "field", key |-> key, store |-> store, locale |-> locale,
     field |-> field, oldValue |-> oldValue, newValue |-> newValue]
LocaleChange(key, store, locale, action) ==
    [kind |-> "locale", key |-> key, store |-> store, locale |-> locale,
     action |-> action]

\* delete next[key] and next[key] = change on a copy of the map.
Delete(m, key) == [k \in DOMAIN m \ {key} |-> m[k]]
Put(m, key, change) ==
    [k \in DOMAIN m \cup {key} |-> IF k = key THEN change ELSE m[k]]
IsField(m, key) == key \in DOMAIN m /\ m[key].kind = "field"
IsLocale(m, key) == key \in DOMAIN m /\ m[key].kind = "locale"

handleStoreFieldChange_PayloadOld(prev, store, rawLocale, rawField, nextValue, originalValue) ==
    LET key == toStoreChangeKey(store, Trim(rawLocale), Trim(rawField))
    IN  IF Trim(rawLocale) = "" \/ Trim(rawField) = "" THEN prev
        ELSE Put(prev, key, FieldChange(key, store, Trim(rawLocale),
                                        Trim(rawField), originalValue, nextValue))
\* handleStoreFieldChange: the updater passed to setPendingStoreChanges.
handleStoreFieldChange(prev, store, rawLocale, rawField, nextValue, originalValue) ==
    LET locale == Trim(rawLocale)
        field == Trim(rawField)
        key == toStoreChangeKey(store, locale, field)
        oldValue == IF IsField(prev, key) THEN prev[key].oldValue
                    ELSE originalValue
    IN  IF locale = "" \/ field = "" THEN prev
        ELSE IF nextValue = oldValue
             THEN IF ~IsField(prev, key) THEN prev ELSE Delete(prev, key)
             ELSE Put(prev, key,
                      FieldChange(key, store, locale, field, oldValue, nextValue))

handleQueueLocaleChange_KeepFields(prev, store, rawLocale, action, supported, inBaseline) ==
    LET targetLocale == Trim(rawLocale)
        localeChangeKey == toStoreLocaleChangeKey(store, targetLocale)
    IN  IF targetLocale = "" \/ action = "add" \/ ~inBaseline
             \/ IsLocale(prev, localeChangeKey)
        THEN prev
        ELSE Put(prev, localeChangeKey,
                 LocaleChange(localeChangeKey, store, targetLocale, action))
\* handleQueueLocaleChange: supported is localeCatalog's answer for the store,
\* inBaseline whether the store's locale list holds the locale.
handleQueueLocaleChange(prev, store, rawLocale, action, supported, inBaseline) ==
    LET targetLocale == Trim(rawLocale)
        localeChangeKey == toStoreLocaleChangeKey(store, targetLocale)
        existingLocaleAction ==
            IF IsLocale(prev, localeChangeKey) THEN prev[localeChangeKey].action
            ELSE "null"
        kept == {k \in DOMAIN prev :
                    ~(action = "remove" /\ prev[k].kind = "field"
                        /\ prev[k].store = store /\ prev[k].locale = targetLocale)}
    IN  IF targetLocale = "" THEN prev
        ELSE IF action = "add" /\ ~supported THEN prev
        ELSE IF action = "add" /\ inBaseline
             THEN IF existingLocaleAction = "remove"
                  THEN Delete(prev, localeChangeKey) ELSE prev
        ELSE IF action = "remove" /\ ~inBaseline
             THEN IF existingLocaleAction = "add"
                  THEN Delete(prev, localeChangeKey) ELSE prev
        ELSE IF existingLocaleAction = action THEN Delete(prev, localeChangeKey)
        ELSE Put([k \in kept |-> prev[k]], localeChangeKey,
                 LocaleChange(localeChangeKey, store, targetLocale, action))

\* populateQueueFromDiff, the inner loop: a field change is added only under
\* a key the queue does not hold yet.
RECURSIVE AddFieldDiffs(_, _, _, _)
AddFieldDiffs(next, targetStore, targetLocale, fields) ==
    IF fields = <<>> THEN next
    ELSE LET fd == Head(fields)
             key == toStoreChangeKey(targetStore, targetLocale, fd.field)
         IN  AddFieldDiffs(
                 IF key \in DOMAIN next THEN next
                 ELSE Put(next, key,
                          FieldChange(key, targetStore, targetLocale, fd.field,
                                      fd.oldValue, fd.newValue)),
                 targetStore, targetLocale, Tail(fields))

\* populateQueueFromDiff, the loop over result.entries.
RECURSIVE populateQueueFromDiff(_, _)
populateQueueFromDiff(prev, entries) ==
    IF entries = <<>> THEN prev
    ELSE LET entry == Head(entries)
             localeKey == toStoreLocaleChangeKey(entry.targetStore,
                                                 entry.targetLocale)
             withLocale ==
                 IF entry.isNewLocale /\ localeKey \notin DOMAIN prev
                 THEN Put(prev, localeKey,
                          LocaleChange(localeKey, entry.targetStore,
                                       entry.targetLocale, "add"))
                 ELSE prev
         IN  populateQueueFromDiff(
                 AddFieldDiffs(withLocale, entry.targetStore,
                               entry.targetLocale, entry.fields),
                 Tail(entries))

\* The field diffs a diff route or a translation run reports for a store:
\* the old value differs from the new one.
FieldDiffs(store) ==
    {[field |-> f, oldValue |-> v[1], newValue |-> v[2]] :
        f \in FieldKeys(store), v \in {<<"", "a">>, <<"a", "b">>, <<"b", "">>}}
\* A diff of two fields: appName and, with the same values, keywords.
TwoFields(store) ==
    {<<fd, [fd EXCEPT !.field = "keywords"]>> :
        fd \in {x \in FieldDiffs(store) : x.field = "appName"}}
DiffEntries(store) ==
    {[targetStore |-> store, targetLocale |-> l, isNewLocale |-> nw, fields |-> fs] :
        l \in Locales, nw \in BOOLEAN,
        fs \in {<<>>} \cup {<<fd>> : fd \in FieldDiffs(store)}
                  \cup TwoFields(store)}
\* The results explored: no entry, one entry, or an entry of one field
\* followed by one for the same locale with old and new value exchanged.
Exchanged(e) ==
    [e EXCEPT !.fields = [i \in DOMAIN e.fields |->
                             [field |-> e.fields[i].field,
                              oldValue |-> e.fields[i].newValue,
                              newValue |-> e.fields[i].oldValue]]]
DiffResults ==
    {<<>>} \cup {<<e>> : e \in UNION {DiffEntries(st) : st \in Stores}}
           \cup {<<e, Exchanged(e)>> :
                    e \in {x \in UNION {DiffEntries(st) : st \in Stores} :
                               Len(x.fields) = 1}}

\* The keys whose entry a step adds, removes or replaces.
ChangedKeys ==
    {k \in DOMAIN pendingStoreChanges \cup DOMAIN pendingStoreChanges' :
        ~(/\ k \in DOMAIN pendingStoreChanges
          /\ k \in DOMAIN pendingStoreChanges'
          /\ pendingStoreChanges'[k] = pendingStoreChanges[k])}

\* The queue holds at most MaxPending changes in the runs explored.
WithinMaxPending == Cardinality(DOMAIN pendingStoreChanges') <= MaxPending

\* The user edits a field of a store panel (StoreFieldList onChange).
StoreFieldChange(store, rawLocale, field, nextValue, originalValue) ==
    LET key == toStoreChangeKey(store, Trim(rawLocale), Trim(field))
    IN  /\ pendingStoreChanges' =
              handleStoreFieldChange(pendingStoreChanges, store, rawLocale,
                                     field, nextValue, originalValue)
        /\ WithinMaxPending
        /\ editRun' =
              CASE pendingStoreChanges = EmptyMap
                     /\ DOMAIN pendingStoreChanges' = {key} -> 1
                [] editRun >= 1 /\ DOMAIN pendingStoreChanges = {key}
                     /\ DOMAIN pendingStoreChanges' = {key}
                     /\ pendingStoreChanges' # pendingStoreChanges -> 2
                [] editRun = 2 /\ DOMAIN pendingStoreChanges = {key}
                     /\ pendingStoreChanges' = EmptyMap -> 3
                [] OTHER -> 0
        /\ clearedByRemove' = 0
        /\ UNCHANGED notQVars

\* The user adds or removes a locale of a store.
QueueLocaleChange(store, rawLocale, action, supported, inBaseline) ==
    /\ pendingStoreChanges' =
          handleQueueLocaleChange(pendingStoreChanges, store, rawLocale, action,
                                  supported, inBaseline)
    /\ WithinMaxPending
    /\ editRun' = 0
    /\ clearedByRemove' =
          IF action = "remove"
               /\ IsLocale(pendingStoreChanges',
                           toStoreLocaleChangeKey(store, Trim(rawLocale)))
          THEN Cardinality({k \in DOMAIN pendingStoreChanges :
                               k \notin DOMAIN pendingStoreChanges'
                                 /\ pendingStoreChanges[k].kind = "field"})
          ELSE 0
    /\ UNCHANGED notQVars

\* A diff (manual, after a sync, or built from a translation run) is put
\* into the queue.
PopulateQueue(entries) ==
    /\ pendingStoreChanges' = populateQueueFromDiff(pendingStoreChanges, entries)
    /\ WithinMaxPending
    /\ editRun' = 0
    /\ clearedByRemove' = 0
    /\ UNCHANGED notQVars

\* handleClearPendingChanges, clearSelectedDetail, selectApp of another app:
\* setPendingStoreChanges({}).
ClearPendingChanges ==
    /\ pendingStoreChanges' = EmptyMap
    /\ editRun' = 0
    /\ clearedByRemove' = 0
    /\ UNCHANGED notQVars

InitQueue == JobsIdle /\ TrIdle /\ QueueIdle /\ ApplyIdle /\ RouteIdle /\ LocaleIdle /\ DiffIdle /\ BatchIdle /\ LoopIdle /\ SyncIdle /\ TokenIdle /\ SnapIdle /\ PageIdle /\ EditIdle /\ AutoDiffIdle /\ ListsIdle /\ RaceIdle

NextQueue ==
    \/ \E store \in Stores, rawLocale \in RawLocales, nextValue \in Values,
          originalValue \in Values :
          \E field \in FieldKeys(store) :
              StoreFieldChange(store, rawLocale, field, nextValue, originalValue)
    \/ \E store \in Stores, rawLocale \in RawLocales, action \in {"add", "remove"},
          supported \in BOOLEAN, inBaseline \in BOOLEAN :
          QueueLocaleChange(store, rawLocale, action, supported, inBaseline)
    \/ \E entries \in DiffResults : PopulateQueue(entries)
    \/ ClearPendingChanges

SpecQueue == InitQueue /\ [][NextQueue]_vars

(***************************************************************************)
(* Claims about the change queue (specification SpecQueue)                 *)
(***************************************************************************)

\* C9: over any sequence of user edits to one field key whose first edit had
\* the baseline b, the pending change keeps oldValue = b (the first edit
\* stores the baseline it was given, no later step changes the oldValue of a
\* change that stays in the queue), and an edit whose new value equals b
\* removes the change for that key, so that reverting leaves no change
\* behind; any other edit leaves the change with oldValue = b and the new
\* value.
EditKeepsOldValue(store, rawLocale, field) ==
    LET key == store \o "::" \o Trim(rawLocale) \o "::" \o field
        b(originalValue) ==
            IF IsField(pendingStoreChanges, key)
            THEN pendingStoreChanges[key].oldValue
            ELSE originalValue
    IN  \A nextValue \in Values, originalValue \in Values :
           (pendingStoreChanges' =
               handleStoreFieldChange(pendingStoreChanges, store, rawLocale,
                                      field, nextValue, originalValue))
             => IF nextValue = b(originalValue)
                THEN key \notin DOMAIN pendingStoreChanges'
                ELSE /\ IsField(pendingStoreChanges', key)
                     /\ pendingStoreChanges'[key].oldValue = b(originalValue)
                     /\ pendingStoreChanges'[key].newValue = nextValue

\* A user edit changes the entry of its own key at most, so the edits
\* that a step can be are those of the one key it changed, or any edit
\* when it changed none.
C9_OldValueKeptRevertRemoves ==
    [][\/ UNCHANGED vars
       \/ /\ \A k \in DOMAIN pendingStoreChanges \cap DOMAIN pendingStoreChanges' :
                (IsField(pendingStoreChanges, k) /\ IsField(pendingStoreChanges', k))
                   => pendingStoreChanges'[k].oldValue = pendingStoreChanges[k].oldValue
          /\ LET changed == ChangedKeys
             IN  IF changed = {}
                 THEN \A store \in Stores, rawLocale \in RawLocales \ {" "} :
                         \A field \in FieldKeys(store) :
                            EditKeepsOldValue(store, rawLocale, field)
                 ELSE \A k \in changed :
                         LET e == IF k \in DOMAIN pendingStoreChanges'
                                  THEN pendingStoreChanges'[k]
                                  ELSE pendingStoreChanges[k]
                         IN  (changed = {k} /\ e.kind = "field")
                               => \A rawLocale \in RawLocales \ {" "} :
                                     Trim(rawLocale) = e.locale
                                       => EditKeepsOldValue(e.store, rawLocale, e.field)
      ]_vars

\* C9 witness: a user edit created a change, a second edit gave it another
\* new value, a third edit returned the field to the baseline, and the queue
\* is empty.
C9_Witness == editRun = 3 /\ pendingStoreChanges = EmptyMap

\* The (store, locale, field | __locale__) a pending change is about.
SlotOf(change) ==
    <<change.store, change.locale,
      IF change.kind = "field" THEN change.field ELSE "__locale__">>

\* C10: every change in the queue is stored under the key computed from its
\* own contents, store::locale::field for a field change and
\* store::locale::__locale__ for a locale change, and no two changes in the
\* queue are about the same (store, locale, field | __locale__).
C10_KeyedByOwnContents ==
    /\ \A k \in DOMAIN pendingStoreChanges :
          LET change == pendingStoreChanges[k]
          IN  /\ change.key = k
              /\ k = IF change.kind = "field"
                     THEN change.store \o "::" \o change.locale \o "::" \o change.field
                     ELSE change.store \o "::" \o change.locale \o "::__locale__"
    /\ \A k1, k2 \in DOMAIN pendingStoreChanges :
          SlotOf(pendingStoreChanges[k1]) = SlotOf(pendingStoreChanges[k2])
             => k1 = k2

\* C10 witness: the queue holds the addition of a locale and a field change
\* for that same store and locale, each under its own key.
C10_Witness ==
    \E k1, k2 \in DOMAIN pendingStoreChanges :
        /\ pendingStoreChanges[k1].kind = "locale"
        /\ pendingStoreChanges[k2].kind = "field"
        /\ pendingStoreChanges[k1].store = pendingStoreChanges[k2].store
        /\ pendingStoreChanges[k1].locale = pendingStoreChanges[k2].locale


\* What a producer's proposal of newValue for a key that holds a field change
\* leaves behind under the upsert: nothing when newValue is the change's
\* baseline, else the change with the proposed value.
UpsertedOnto(key, newValue) ==
    IF newValue = pendingStoreChanges[key].oldValue
    THEN key \notin DOMAIN pendingStoreChanges'
    ELSE /\ IsField(pendingStoreChanges', key)
         /\ pendingStoreChanges'[key].newValue = newValue

\* C11: the diff output and the user's edits apply the same upsert: when
\* either proposes a value for a key that already holds a pending change,
\* the change afterwards holds the proposed value, or the key is removed if
\* the proposed value equals the change's baseline.
C11_ProducersShareUpsert ==
    [][/\ \A store \in Stores, rawLocale \in RawLocales \ {" "},
             nextValue \in Values, originalValue \in Values :
             \A field \in FieldKeys(store) :
                 LET key == store \o "::" \o Trim(rawLocale) \o "::" \o field
                 IN  (StoreFieldChange(store, rawLocale, field, nextValue,
                                       originalValue)
                        /\ IsField(pendingStoreChanges, key))
                        => UpsertedOnto(key, nextValue)
       /\ \A entries \in {r \in DiffResults : Len(r) = 1} :
             PopulateQueue(entries) =>
                 \A i \in DOMAIN entries[1].fields :
                     LET fd == entries[1].fields[i]
                         key == entries[1].targetStore \o "::"
                                  \o entries[1].targetLocale \o "::" \o fd.field
                     IN  IsField(pendingStoreChanges, key)
                            => UpsertedOnto(key, fd.newValue)
      ]_vars


\* C13: queuing the removal of a locale of a store deletes every pending
\* field change of that store and locale and leaves every pending change of
\* any other store or locale as it was.
C13_RemoveClearsOwnFieldsOnly ==
    [][\A store \in Stores, rawLocale \in RawLocales \ {" "},
          supported \in BOOLEAN, inBaseline \in BOOLEAN :
          LET locale == Trim(rawLocale)
              localeKey == store \o "::" \o locale \o "::__locale__"
              Queued(m) == IsLocale(m, localeKey) /\ m[localeKey].action = "remove"
              Here(change) == change.store = store /\ change.locale = locale
          IN  (/\ ~Queued(pendingStoreChanges)
               /\ Queued(pendingStoreChanges')
               /\ QueueLocaleChange(store, rawLocale, "remove", supported, inBaseline))
                 => /\ \A k \in DOMAIN pendingStoreChanges' :
                          ~(pendingStoreChanges'[k].kind = "field"
                              /\ Here(pendingStoreChanges'[k]))
                    /\ \A k \in DOMAIN pendingStoreChanges :
                          ~Here(pendingStoreChanges[k])
                             => /\ k \in DOMAIN pendingStoreChanges'
                                /\ pendingStoreChanges'[k] = pendingStoreChanges[k]
                    /\ \A k \in DOMAIN pendingStoreChanges' :
                          ~Here(pendingStoreChanges'[k])
                             => k \in DOMAIN pendingStoreChanges
      ]_vars

\* C13 witness: the removal of a locale has just been queued and deleted a
\* field change of that locale, while a change of another store or locale
\* is still pending.
C13_Witness ==
    /\ clearedByRemove >= 1
    /\ \E k1, k2 \in DOMAIN pendingStoreChanges :
          /\ pendingStoreChanges[k1].kind = "locale"
          /\ pendingStoreChanges[k1].action = "remove"
          /\ pendingStoreChanges[k2].kind = "field"
          /\ <<pendingStoreChanges[k2].store, pendingStoreChanges[k2].locale>>
                # <<pendingStoreChanges[k1].store, pendingStoreChanges[k1].locale>>


\* ---------------------------------------------------------------------
\* Part 4. Applying the queue: handleApplyPendingChanges (App.tsx) builds
\* the write plan from the pending changes, sends it to
\* POST /api/apps/:id/locales/apply and takes the succeeded actions'
\* changes out of the queue.
\* ---------------------------------------------------------------------

\* New values a pending field change can carry here; " " is a blank text.
QueueValues == {"a", "b", " "}
\* Error texts the server can attach to a failed action.
Errors == {"E1", "E2"}
\* storeFilter: undefined ("all") or one store.
StoreFilters == {"all"} \cup Stores

\* The entries a queue can hold: a field change or a locale action under
\* its own key.
QueueEntries ==
    {FieldChange(toStoreChangeKey(t[1], t[2], t[3]), t[1], t[2], t[3], "", t[4]) :
        t \in {u \in Stores \X Locales \X (FieldKeys("app_store") \cup FieldKeys("play_store")) \X QueueValues :
                 u[3] \in FieldKeys(u[1])}}
    \cup {LocaleChange(toStoreLocaleChangeKey(t[1], t[2]), t[1], t[2], t[3]) :
            t \in Stores \X Locales \X {"add", "remove"}}

\* The queues of at most n entries.
RECURSIVE QueuesUpTo(_)
QueuesUpTo(n) ==
    IF n = 0 THEN {EmptyMap}
    ELSE LET smaller == QueuesUpTo(n - 1)
         IN smaller \cup {Put(m, e.key, e) : m \in smaller, e \in QueueEntries}

\* meta.storeRules as far as apply reads it: per store, the fields flagged
\* requiredForSave.
RequiredForSave == {r \in [Stores -> SUBSET (FieldKeys("app_store") \cup FieldKeys("play_store"))] :
                      \A s \in Stores : r[s] \subseteq FieldKeys(s)}

\* allEntries: the queue's entries the store filter lets through.
AllEntries(pending, storeFilter) ==
    {pending[k] : k \in {j \in DOMAIN pending :
                           storeFilter = "all" \/ pending[j].store = storeFilter}}
LocaleEntries(allEntries) == {e \in allEntries : e.kind = "locale"}
FieldEntries(allEntries) == {e \in allEntries : e.kind = "field"}
\* fieldOnlyByLocale: the (store, locale) pairs with field changes and no
\* locale action.
FieldOnlyLocales(allEntries) ==
    {<<fe.store, fe.locale>> : fe \in FieldEntries(allEntries)}
      \ {<<e.store, e.locale>> : e \in LocaleEntries(allEntries)}

\* The fields object built from the field entries of one (store, locale).
FieldsPayload(allEntries, store, locale) ==
    LET own == {c \in FieldEntries(allEntries) : c.store = store /\ c.locale = locale}
    IN [f \in {c.field : c \in own} |->
          (CHOOSE c \in own : c.field = f).newValue]

\* missingFields of one locale add: the required fields with no pending
\* field change or a blank one.
MissingFields(pending, addEntry, required) ==
    {f \in required[addEntry.store] :
        LET changeKey == toStoreChangeKey(addEntry.store, addEntry.locale, f)
        IN \/ ~IsField(pending, changeKey)
           \/ Trim(pending[changeKey].newValue) = ""}

\* A remove action is sent without a fields object; EmptyMap stands for it.
LocaleActionPayload(allEntries, entry) ==
    [store |-> entry.store, locale |-> entry.locale, action |-> entry.action,
     fields |-> IF entry.action # "add" THEN EmptyMap
                ELSE FieldsPayload(allEntries, entry.store, entry.locale)]

\* changes: one action per locale entry, then one update per field-only
\* (store, locale).
BuildChanges(allEntries) ==
    {LocaleActionPayload(allEntries, entry) : entry \in LocaleEntries(allEntries)}
    \cup {[store |-> p[1], locale |-> p[2], action |-> "update",
           fields |-> FieldsPayload(allEntries, p[1], p[2])] :
            p \in FieldOnlyLocales(allEntries)}


\* The adds of the plan whose required fields are not all queued; with the
\* rules not loaded (meta is null, or has no rule set for the store) the
\* loop skips every add.
AddsMissingFields(pending, allEntries, rulesLoaded, required) ==
    {e \in LocaleEntries(allEntries) :
        /\ e.action = "add"
        /\ rulesLoaded
        /\ MissingFields(pending, e, required) # {}}

\* The entries a succeeded action takes out of the queue.
SucceededKeys_LocaleOnly(prev, succeeded) ==
    {k \in DOMAIN prev : \E s \in succeeded :
        /\ s.action \in {"add", "remove"}
        /\ k = toStoreLocaleChangeKey(s.store, s.locale)}

SucceededKeys(prev, succeeded) ==
    {k \in DOMAIN prev : \E s \in succeeded :
        \/ /\ s.action \in {"add", "remove"}
           /\ k = toStoreLocaleChangeKey(s.store, s.locale)
        \/ /\ s.action \in {"add", "update"}
           /\ prev[k].kind = "field"
           \* key.startsWith(`${s.store}::${s.locale}::`)
           /\ \E rest \in FieldKeys("app_store") \cup FieldKeys("play_store") \cup {"__locale__"} :
                 k = s.store \o "::" \o s.locale \o "::" \o rest}

\* setPendingStoreChanges after the response: the succeeded actions'
\* changes leave the queue.
RemoveSucceeded(prev, succeeded) ==
    [k \in DOMAIN prev \ SucceededKeys(prev, succeeded) |-> prev[k]]

\* handleApplyPendingChanges up to the request: nothing to do, a rejected
\* locale add, or the plan is sent.
ApplyPendingChanges(storeFilter, rulesLoaded, required) ==
    /\ applyPc = "idle"
    /\ LET allEntries == AllEntries(pendingStoreChanges, storeFilter)
           incomplete == AddsMissingFields(pendingStoreChanges, allEntries,
                                           rulesLoaded, required)
       IN IF LocaleEntries(allEntries) = {} /\ FieldOnlyLocales(allEntries) = {}
          THEN /\ applyReport' = [NoReport EXCEPT !.kind = "noChanges"]
               /\ UNCHANGED <<applyPc, sent>>
          ELSE IF incomplete # {}
          THEN \* the first incomplete add in the queue's order is reported
               /\ \E addEntry \in incomplete :
                     applyReport' = [NoReport EXCEPT
                         !.kind = "rejected",
                         !.store = addEntry.store,
                         !.locale = addEntry.locale,
                         !.missing = MissingFields(pendingStoreChanges, addEntry, required)]
               /\ UNCHANGED <<applyPc, sent>>
          ELSE /\ sent' = BuildChanges(allEntries)
               /\ applyPc' = "sent"
               /\ applyReport' = [NoReport EXCEPT !.kind = "sending"]
    /\ UNCHANGED <<pendingStoreChanges, editRun, clearedByRemove>>
    /\ UNCHANGED notQAVars

Outcomes == [sent -> {"ok"} \cup Errors]
Succeeded(outcome) ==
    {[store |-> c.store, locale |-> c.locale, action |-> c.action] :
        c \in {d \in sent : outcome[d] = "ok"}}
Failed(outcome) ==
    {[store |-> c.store, locale |-> c.locale, action |-> c.action,
      error |-> outcome[c]] : c \in {d \in sent : outcome[d] # "ok"}}

\* The response arrives: succeeded changes leave the queue, failed ones
\* are reported with their error.
ApplyResponse(outcome) ==
    /\ applyPc = "sent"
    /\ pendingStoreChanges' = RemoveSucceeded(pendingStoreChanges, Succeeded(outcome))
    /\ applyReport' = [NoReport EXCEPT !.kind = "result",
                                       !.succeeded = Succeeded(outcome),
                                       !.failed = Failed(outcome)]
    /\ applyPc' = "idle"
    /\ sent' = {}
    /\ UNCHANGED <<editRun, clearedByRemove>>
    /\ UNCHANGED notQAVars

\* The request itself fails (network, 4xx, 5xx): the catch block reports
\* the error and the queue stays.
ApplyRequestFailed ==
    /\ applyPc = "sent"
    /\ applyReport' = [NoReport EXCEPT !.kind = "error"]
    /\ applyPc' = "idle"
    /\ sent' = {}
    /\ UNCHANGED <<pendingStoreChanges, editRun, clearedByRemove>>
    /\ UNCHANGED notQAVars

InitApply ==
    /\ JobsIdle
    /\ TrIdle
    /\ ApplyIdle
    /\ RouteIdle
    /\ LocaleIdle
    /\ DiffIdle
    /\ BatchIdle
    /\ LoopIdle
    /\ SyncIdle
    /\ TokenIdle
    /\ SnapIdle
    /\ PageIdle
    /\ EditIdle
    /\ AutoDiffIdle
    /\ ListsIdle
    /\ RaceIdle
    /\ pendingStoreChanges \in QueuesUpTo(MaxPending)
    /\ editRun = 0
    /\ clearedByRemove = 0

NextApply ==
    \/ \E storeFilter \in StoreFilters, rulesLoaded \in BOOLEAN, required \in RequiredForSave :
          ApplyPendingChanges(storeFilter, rulesLoaded, required)
    \/ \E outcome \in Outcomes : ApplyResponse(outcome)
    \/ ApplyRequestFailed

SpecApply == InitApply /\ [][NextApply]_vars


\* The actions of a plan for one (store, locale).
ActionsFor(plan, store, locale) ==
    {c \in plan : c.store = store /\ c.locale = locale}
\* The actions of a plan that carry a pending field change.
Carriers(plan, fe) ==
    {c \in ActionsFor(plan, fe.store, fe.locale) :
        fe.field \in DOMAIN c.fields /\ c.fields[fe.field] = fe.newValue}

\* C17: the plan sent for the queue partitions the pending changes in
\* scope: every pending locale add/remove is one action carrying all
\* pending field changes of its (store, locale), every (store, locale)
\* with field changes and no locale action is exactly one update action,
\* each (store, locale) is in at most one action and every pending field
\* change is carried by exactly one action.
C17_PlanPartitionsQueue ==
    [][\A storeFilter \in StoreFilters, rulesLoaded \in BOOLEAN, required \in RequiredForSave :
          (ApplyPendingChanges(storeFilter, rulesLoaded, required) /\ applyPc' = "sent")
            => LET allEntries == AllEntries(pendingStoreChanges, storeFilter)
               IN /\ \A e \in LocaleEntries(allEntries) :
                        /\ Cardinality(ActionsFor(sent', e.store, e.locale)) = 1
                        /\ \A c \in ActionsFor(sent', e.store, e.locale) :
                              /\ c.action = e.action
                              /\ c.fields = FieldsPayload(allEntries, e.store, e.locale)
                  /\ \A p \in FieldOnlyLocales(allEntries) :
                        /\ Cardinality(ActionsFor(sent', p[1], p[2])) = 1
                        /\ \A c \in ActionsFor(sent', p[1], p[2]) : c.action = "update"
                  /\ \A s \in Stores, l \in Locales :
                        Cardinality(ActionsFor(sent', s, l)) <= 1
                  /\ \A fe \in FieldEntries(allEntries) :
                        Cardinality(Carriers(sent', fe)) = 1]_vars


\* C12: when apply is requested while the queue holds a locale add (in the
\* scope of the apply) for which exactly one field flagged requiredForSave
\* has no pending non-blank field change, no create request for that
\* locale is sent, the queue is unchanged and the reported missing-field
\* list names exactly that field.
C12_AddMissingOneFieldRejected ==
    [][\A storeFilter \in StoreFilters, rulesLoaded \in BOOLEAN, required \in RequiredForSave :
          ApplyPendingChanges(storeFilter, rulesLoaded, required)
            => \A e \in LocaleEntries(AllEntries(pendingStoreChanges, storeFilter)) :
                  (e.action = "add" /\ Cardinality(MissingFields(pendingStoreChanges, e, required)) = 1)
                    => /\ ~\E c \in sent' : c.store = e.store /\ c.locale = e.locale /\ c.action = "add"
                       /\ pendingStoreChanges' = pendingStoreChanges
                       /\ applyReport'.kind = "rejected"
                       /\ applyReport'.missing = MissingFields(pendingStoreChanges, e, required)]_vars


\* The pending changes that belong to an action of the plan: those of its
\* store and locale.
ChangesOf(pending, c) ==
    {k \in DOMAIN pending : pending[k].store = c.store /\ pending[k].locale = c.locale}

\* C14: after an apply response is processed, the locale key of every
\* succeeded add/remove and the field keys a succeeded action carried are
\* absent from the queue, while every pending change of a failed action
\* is still queued with the same value and the action is reported with
\* its own error text.
C14_SucceededLeaveFailedStay ==
    [][\A outcome \in Outcomes :
          ApplyResponse(outcome)
            => \A c \in sent :
                  IF outcome[c] = "ok"
                  THEN /\ c.action \in {"add", "remove"}
                            => toStoreLocaleChangeKey(c.store, c.locale) \notin DOMAIN pendingStoreChanges'
                       /\ \A f \in DOMAIN c.fields :
                            toStoreChangeKey(c.store, c.locale, f) \notin DOMAIN pendingStoreChanges'
                  ELSE /\ \A k \in ChangesOf(pendingStoreChanges, c) :
                            /\ k \in DOMAIN pendingStoreChanges'
                            /\ pendingStoreChanges'[k] = pendingStoreChanges[k]
                       /\ {f.error : f \in {g \in applyReport'.failed :
                                               /\ g.store = c.store
                                               /\ g.locale = c.locale
                                               /\ g.action = c.action}} = {outcome[c]}]_vars

\* A response with a succeeded and a failed action was processed: the
\* failed action's changes are queued, the succeeded action's are gone.
C14_Witness ==
    /\ applyReport.kind = "result"
    /\ \E s \in applyReport.succeeded :
          \A k \in DOMAIN pendingStoreChanges :
              ~(pendingStoreChanges[k].store = s.store /\ pendingStoreChanges[k].locale = s.locale)
    /\ \E f \in applyReport.failed :
          /\ f.action = "update"
          /\ \E k \in DOMAIN pendingStoreChanges :
                /\ pendingStoreChanges[k].store = f.store
                /\ pendingStoreChanges[k].locale = f.locale


\* ---------------------------------------------------------------------
\* Part 5. The apply route of the server: POST /api/apps/:id/locales/apply
\* writes every parsed change to its storefront, settles each write on its
\* own and merges the succeeded adds and removes into the stored lists.
\* ---------------------------------------------------------------------

\* Longest changes array of a call.
MaxChanges == 2

\* The items a changes array can hold: "rename" is no action of the route
\* and " " is a blank locale.
RawChanges ==
    [store : Stores, locale : RawLocales, action : {"add", "remove", "update", "rename"}]
\* The changes arrays of a call.
RawRequests == UNION {[1 .. n -> RawChanges] : n \in 0 .. MaxChanges}
\* The lists table store_locales holds for the app when the call arrives,
\* and the lists a PUT /api/apps/:id/locales stores meanwhile.
LocaleLists == [Stores -> {{}, {"tr"}}]
PutLists == {[s \in Stores |-> {}], [s \in Stores |-> {"de"}]}

IsLocaleChange(row) ==
    /\ row.store \in Stores
    /\ Trim(row.locale) # ""
    /\ row.action \in {"add", "remove", "update"}

\* parseLocaleChanges: the valid items in order, locale trimmed; idx is
\* the position in the parsed array.
parseLocaleChanges(raw) ==
    LET kept == SelectSeq(raw, IsLocaleChange)
    IN [i \in 1 .. Len(kept) |->
          [idx |-> i, store |-> kept[i].store, locale |-> Trim(kept[i].locale),
           action |-> kept[i].action]]

\* applyLocaleChangesToList: the changes are applied to a Set in order.
applyLocaleChangesToList_RemovesLast(current, changes) ==
    (current \cup {changes[i].locale : i \in {j \in 1 .. Len(changes) : changes[j].action = "add"}})
       \ {changes[i].locale : i \in {j \in 1 .. Len(changes) : changes[j].action = "remove"}}

RECURSIVE applyLocaleChangesToList(_, _)
applyLocaleChangesToList(current, changes) ==
    IF changes = <<>> THEN current
    ELSE LET change == Head(changes)
             set == IF change.action = "add" THEN current \cup {change.locale}
                    ELSE IF change.action = "remove" THEN current \ {change.locale}
                    ELSE current
         IN applyLocaleChangesToList(set, Tail(changes))

\* How the storefront writes of a call can settle: each on its own.
WriteResults == [1 .. Len(localeChanges) -> {"ok", "E1"}]

\* succeeded / failed of one store, in the order of the parsed array.
SucceededOf(store, results) ==
    SelectSeq(localeChanges, LAMBDA c : c.store = store /\ results[c.idx] = "ok")
FailedOf(store, results) ==
    LET bad == SelectSeq(localeChanges, LAMBDA c : c.store = store /\ results[c.idx] # "ok")
    IN [i \in 1 .. Len(bad) |->
          [idx |-> bad[i].idx, store |-> bad[i].store, locale |-> bad[i].locale,
           action |-> bad[i].action, error |-> results[bad[i].idx]]]

\* repo.replaceStoreLocales throws when it inserts a row for an app that
\* is gone (FOREIGN KEY app_id REFERENCES apps(id), foreign_keys = ON).
ReplaceThrows(next) == ~appPresent /\ next # {}

\* The call arrives: mustGetApp, parseLocaleChanges, 400 when nothing is
\* valid, else the storefront writes start.
ApplyCall(raw) ==
    /\ routePc = "idle"
    /\ listAtCall' = storeLocales
    /\ IF ~appPresent
       THEN /\ response' = [NoResponse EXCEPT !.status = "error"]
            /\ routePc' = "done"
            /\ UNCHANGED localeChanges
       ELSE IF parseLocaleChanges(raw) = <<>>
       THEN /\ response' = [NoResponse EXCEPT !.status = "badRequest"]
            /\ routePc' = "done"
            /\ UNCHANGED localeChanges
       ELSE /\ localeChanges' = parseLocaleChanges(raw)
            /\ routePc' = "writing"
            /\ UNCHANGED response
    /\ UNCHANGED <<appPresent, storeLocales>>
    /\ UNCHANGED notSVars

\* DELETE /api/apps/:id while the writes are awaited: the app's rows of
\* store_locales go with it (ON DELETE CASCADE).
DeleteCalledApp ==
    /\ routePc = "writing"
    /\ appPresent
    /\ appPresent' = FALSE
    /\ storeLocales' = [s \in Stores |-> {}]
    /\ UNCHANGED <<routePc, localeChanges, response, listAtCall>>
    /\ UNCHANGED notSVars

\* PUT /api/apps/:id/locales while the writes are awaited.
PutLocales(lists) ==
    /\ routePc = "writing"
    /\ appPresent
    /\ storeLocales # lists
    /\ storeLocales' = lists
    /\ UNCHANGED <<appPresent, routePc, localeChanges, response, listAtCall>>
    /\ UNCHANGED notSVars

\* The writes have settled: succeeded and failed are filled (App Store
\* first), the lists of the stores with a succeeded change are replaced,
\* and the call answers; a throw of replaceStoreLocales goes to the error
\* handler.
WritesSettled(results) ==
    /\ routePc = "writing"
    /\ LET succeeded == SucceededOf("app_store", results) \o SucceededOf("play_store", results)
           failed == FailedOf("app_store", results) \o FailedOf("play_store", results)
           ascSucceeded == SucceededOf("app_store", results)
           gpcSucceeded == SucceededOf("play_store", results)
           ascNext == applyLocaleChangesToList(storeLocales["app_store"], ascSucceeded)
           gpcNext == applyLocaleChangesToList(storeLocales["play_store"], gpcSucceeded)
           ascThrows == ascSucceeded # <<>> /\ ReplaceThrows(ascNext)
           gpcThrows == gpcSucceeded # <<>> /\ ReplaceThrows(gpcNext)
       IN /\ storeLocales' =
                [s \in Stores |->
                    IF s = "app_store"
                    THEN IF ascSucceeded # <<>> /\ ~ascThrows THEN ascNext
                         ELSE storeLocales[s]
                    ELSE IF gpcSucceeded # <<>> /\ ~ascThrows /\ ~gpcThrows THEN gpcNext
                         ELSE storeLocales[s]]
          /\ response' =
                IF ascThrows \/ gpcThrows
                THEN [NoResponse EXCEPT !.status = "error"]
                ELSE [status |-> "ok", succeeded |-> succeeded, failed |-> failed]
    /\ routePc' = "done"
    /\ UNCHANGED <<appPresent, localeChanges, listAtCall>>
    /\ UNCHANGED notSVars

InitApplyRoute ==
    /\ JobsIdle
    /\ TrIdle
    /\ QueueIdle
    /\ ApplyIdle
    /\ LocaleIdle
    /\ DiffIdle
    /\ BatchIdle
    /\ LoopIdle
    /\ SyncIdle
    /\ TokenIdle
    /\ SnapIdle
    /\ PageIdle
    /\ EditIdle
    /\ AutoDiffIdle
    /\ ListsIdle
    /\ RaceIdle
    /\ appPresent \in BOOLEAN
    /\ storeLocales \in LocaleLists
    /\ appPresent = FALSE => storeLocales = [s \in Stores |-> {}]
    /\ listAtCall = storeLocales
    /\ routePc = "idle"
    /\ localeChanges = <<>>
    /\ response = NoResponse

NextApplyRoute ==
    \/ routePc = "idle" /\ \E raw \in RawRequests : ApplyCall(raw)
    \/ DeleteCalledApp
    \/ \E lists \in PutLists : PutLocales(lists)
    \/ \E results \in WriteResults : WritesSettled(results)

SpecApplyRoute == InitApplyRoute /\ [][NextApplyRoute]_vars


\* The positions of a response list that report the parsed change i.
ReportsOf(list, i) == {p \in 1 .. Len(list) : list[p].idx = i}

\* C15: whichever storefront writes of an apply call fail, the call
\* answers with the two lists, every parsed change is in exactly one of
\* succeeded / failed, and a change whose own write succeeded is in
\* succeeded; the call never answers with one failure for all.
C15_EveryChangeSettlesAlone ==
    [][\A results \in WriteResults :
          WritesSettled(results)
            => /\ response'.status = "ok"
               /\ \A i \in 1 .. Len(localeChanges) :
                     /\ Cardinality(ReportsOf(response'.succeeded, i))
                          + Cardinality(ReportsOf(response'.failed, i)) = 1
                     /\ results[i] = "ok" => ReportsOf(response'.succeeded, i) # {}]_vars


\* The locales a sequence of changes adds / removes.
LocalesOf(changes, action) ==
    {changes[p].locale : p \in {q \in 1 .. Len(changes) : changes[q].action = action}}
\* Whether locale l is in a list after the adds and removes of changes
\* are applied to it in order: the last add or remove of l decides.
InListAfter(current, changes, l) ==
    LET touching == {p \in 1 .. Len(changes) :
                        changes[p].locale = l /\ changes[p].action \in {"add", "remove"}}
    IN IF touching = {} THEN l \in current
       ELSE changes[CHOOSE p \in touching : \A q \in touching : q <= p].action = "add"

\* C16 as stated: after an apply call the stored list of each store is
\* its list before the call plus the locales of the store's succeeded
\* adds minus the locales of its succeeded removes; failed actions and
\* updates do not change it and a store with no succeeded action keeps
\* its list.
C16_ListIsBeforePlusAddsMinusRemoves ==
    [][\A results \in WriteResults :
          WritesSettled(results)
            => \A s \in Stores :
                  storeLocales'[s] =
                     (listAtCall[s] \cup LocalesOf(SucceededOf(s, results), "add"))
                        \ LocalesOf(SucceededOf(s, results), "remove")]_vars

\* C16 amended: the call changes the stored lists only when its writes
\* have settled.  A store with no succeeded action keeps the list stored
\* at that moment; a store with a succeeded action gets the list stored
\* at that moment with its succeeded adds and removes applied in request
\* order (failed actions and updates change nothing), or keeps it when
\* the update is refused because the app was deleted meanwhile and the
\* call answers with an error.
C16_ListIsStoredWithSucceededInOrder ==
    [][\A results \in WriteResults :
          WritesSettled(results)
            => \A s \in Stores :
                  IF SucceededOf(s, results) = <<>>
                  THEN storeLocales'[s] = storeLocales[s]
                  ELSE \/ storeLocales'[s] =
                            {l \in Locales : InListAfter(storeLocales[s], SucceededOf(s, results), l)}
                       \/ /\ response'.status = "error"
                          /\ ~appPresent
                          /\ storeLocales'[s] = storeLocales[s]]_vars

\* A call answered with a succeeded remove followed by a succeeded add of
\* the same locale: the locale is in the stored list.
C16_Witness ==
    /\ routePc = "done"
    /\ response.status = "ok"
    /\ \E p, q \in 1 .. Len(response.succeeded) :
          /\ p < q
          /\ response.succeeded[p].action = "remove"
          /\ response.succeeded[q].action = "add"
          /\ response.succeeded[p].store = response.succeeded[q].store
          /\ response.succeeded[p].locale = response.succeeded[q].locale
          /\ response.succeeded[q].locale \in storeLocales[response.succeeded[q].store]


\* ---------------------------------------------------------------------
\* Part 6. Locale codes (translate.ts): the alias table, toCanonical,
\* toStoreLocale and the two supported-locale catalogs.
\* ---------------------------------------------------------------------

\* Longest chain of conversions applied to one code.
MaxConversions == 2

\* Store-specific code -> canonical code.
LOCALE_ALIASES ==
    ("iw-IL" :> "he") @@ ("zh-CN" :> "zh-Hans") @@ ("zh-TW" :> "zh-Hant")
      @@ ("ms-MY" :> "ms")
\* Canonical code -> App Store Connect code.
CANONICAL_TO_IOS ==
    ("he" :> "he") @@ ("zh-Hans" :> "zh-Hans") @@ ("zh-Hant" :> "zh-Hant")
      @@ ("ms" :> "ms")
\* Canonical code -> Google Play code.
CANONICAL_TO_ANDROID ==
    ("he" :> "iw-IL") @@ ("zh-Hans" :> "zh-CN") @@ ("zh-Hant" :> "zh-TW")
      @@ ("ms" :> "ms-MY")

APP_STORE_LOCALES ==
    {"ar", "ca", "cs-CZ", "da-DK", "de-DE", "el-GR", "en-AU", "en-CA",
     "en-GB", "en-US", "es-ES", "es-MX", "fi-FI", "fr-CA", "fr-FR", "he",
     "hi-IN", "hr", "hu-HU", "id", "it-IT", "ja-JP", "ko-KR", "ms",
     "nl-NL", "no-NO", "pl-PL", "pt-BR", "pt-PT", "ro", "ru-RU", "sk",
     "sv-SE", "th", "tr-TR", "uk", "vi", "zh-Hans", "zh-Hant"}

PLAY_STORE_LOCALES ==
    {"af", "sq", "am", "ar", "hy-AM", "az-AZ", "bn-BD", "eu-ES", "be",
     "bg", "my-MM", "ca", "zh-HK", "zh-Hans", "zh-Hant", "hr", "cs-CZ",
     "da-DK", "nl-NL", "en-AU", "en-CA", "en-US", "en-GB", "en-IN",
     "en-SG", "en-ZA", "et", "fil", "fi-FI", "fr-CA", "fr-FR", "gl-ES",
     "ka-GE", "de-DE", "el-GR", "gu", "he", "hi-IN", "hu-HU", "is-IS",
     "id", "it-IT", "ja-JP", "kn-IN", "kk", "km-KH", "ko-KR", "ky-KG",
     "lo-LA", "lv", "lt", "mk-MK", "ms", "ml-IN", "mr-IN", "mn-MN",
     "ne-NP", "no-NO", "fa", "fa-AE", "fa-AF", "fa-IR", "pl-PL", "pt-BR",
     "pt-PT", "pa", "ro", "rm", "ru-RU", "sr", "si-LK", "sk", "sl",
     "es-419", "es-ES", "es-US", "sw", "sv-SE", "ta-IN", "te-IN", "th",
     "tr-TR", "uk", "ur", "vi"}

\* Codes of no table and no catalog.
OtherCodes == {"en", "zh", "iw", "xx-XX"}
\* The codes a conversion is given.
Codes ==
    APP_STORE_LOCALES \cup PLAY_STORE_LOCALES \cup DOMAIN LOCALE_ALIASES
      \cup OtherCodes

toCanonical_NoAliases(locale) == locale

\* LOCALE_ALIASES[locale] ?? locale
toCanonical(locale) ==
    IF locale \in DOMAIN LOCALE_ALIASES THEN LOCALE_ALIASES[locale] ELSE locale

toStoreLocale_PlayLanguageOnly(canonical, store) ==
    IF store = "play_store" /\ canonical = "he" THEN "iw"
    ELSE IF store = "play_store" /\ canonical \in DOMAIN CANONICAL_TO_ANDROID
    THEN CANONICAL_TO_ANDROID[canonical]
    ELSE canonical

\* map[canonical] ?? canonical, with the map of the store
toStoreLocale(canonical, store) ==
    LET map == IF store = "app_store" THEN CANONICAL_TO_IOS ELSE CANONICAL_TO_ANDROID
    IN IF canonical \in DOMAIN map THEN map[canonical] ELSE canonical

\* A code is given (locVals[1]) and conversions are applied to it one
\* after the other: locOps[i] turns locVals[i] into locVals[i + 1].
InitLocale ==
    /\ JobsIdle
    /\ TrIdle
    /\ QueueIdle
    /\ ApplyIdle
    /\ RouteIdle
    /\ DiffIdle
    /\ BatchIdle
    /\ LoopIdle
    /\ SyncIdle
    /\ TokenIdle
    /\ SnapIdle
    /\ PageIdle
    /\ EditIdle
    /\ AutoDiffIdle
    /\ ListsIdle
    /\ RaceIdle
    /\ locVals \in {<<c>> : c \in Codes}
    /\ locOps = <<>>

ApplyToCanonical ==
    /\ Len(locOps) < MaxConversions
    /\ locVals' = Append(locVals, toCanonical(locVals[Len(locVals)]))
    /\ locOps' = Append(locOps, "canonical")
    /\ UNCHANGED notLVars

ApplyToStoreLocale(store) ==
    /\ Len(locOps) < MaxConversions
    /\ locVals' = Append(locVals, toStoreLocale(locVals[Len(locVals)], store))
    /\ locOps' = Append(locOps, store)
    /\ UNCHANGED notLVars

NextLocale ==
    \/ ApplyToCanonical
    \/ \E store \in Stores : ApplyToStoreLocale(store)

SpecLocale == InitLocale /\ [][NextLocale]_vars


OtherStore(store) == IF store = "app_store" THEN "play_store" ELSE "app_store"

\* C18: toCanonical is idempotent for every code of the alias table and
\* of both catalogs, and the native codes the two storefronts use for one
\* canonical locale canonicalize to the same code.
C18_CanonicalIdempotentAcrossStores ==
    /\ (Len(locOps) = 2 /\ locOps[1] = "canonical" /\ locOps[2] = "canonical")
          => locVals[3] = locVals[2]
    /\ (Len(locOps) = 2 /\ locOps[1] \in Stores /\ locOps[2] = "canonical"
          /\ locVals[1] \in DOMAIN CANONICAL_TO_IOS \cup DOMAIN CANONICAL_TO_ANDROID)
          => locVals[3] = toCanonical(toStoreLocale(locVals[1], OtherStore(locOps[1])))

\* The Play code of Hebrew was canonicalized, and canonicalized again.
C18_Witness ==
    \/ /\ locOps = <<"canonical", "canonical">>
       /\ locVals[1] = "iw-IL"
       /\ locVals[3] = "he"
    \/ /\ locOps = <<"play_store", "canonical">>
       /\ locVals = <<"zh-Hans", "zh-CN", "zh-Hans">>

\* C19: for every canonical code of the catalogs and each store,
\* canonicalizing the store's code gives the canonical code back, and a
\* code absent from the table a conversion looks up is returned unchanged
\* by it.
C19_StoreCodeIsRightInverse ==
    /\ (Len(locOps) = 2 /\ locOps[1] \in Stores /\ locOps[2] = "canonical"
          /\ locVals[1] \in APP_STORE_LOCALES \cup PLAY_STORE_LOCALES)
          => locVals[3] = locVals[1]
    /\ (Len(locOps) >= 1 /\ locOps[1] = "canonical"
          /\ locVals[1] \notin DOMAIN LOCALE_ALIASES)
          => locVals[2] = locVals[1]
    /\ (Len(locOps) >= 1 /\ locOps[1] = "app_store"
          /\ locVals[1] \notin DOMAIN CANONICAL_TO_IOS)
          => locVals[2] = locVals[1]
    /\ (Len(locOps) >= 1 /\ locOps[1] = "play_store"
          /\ locVals[1] \notin DOMAIN CANONICAL_TO_ANDROID)
          => locVals[2] = locVals[1]

\* Malay went to its Play code and back; a code of no table went through
\* a conversion.
C19_Witness ==
    \/ locOps = <<"play_store", "canonical">> /\ locVals = <<"ms", "ms-MY", "ms">>
    \/ locOps = <<"canonical">> /\ locVals = <<"xx-XX", "xx-XX">>


\* ---------------------------------------------------------------------
\* Part 7. The prepare-diff routes (server.ts): one row of the source
\* store is compared with what is stored for its locale in the target
\* store.
\* ---------------------------------------------------------------------

\* Most trailing whitespace characters of a text.
MaxTrail == 1
\* playShortDesc.length > 30 ? playShortDesc.slice(0, 30)
SubtitleLimit == 30

\* A text: its characters up to the last non-blank one (core, "L" being a
\* text of SubtitleLimit + 1 characters and "L30" its first SubtitleLimit
\* characters) and the number of whitespace characters after them.
DiffText(core, trail) == [core |-> core, trail |-> trail]
EmptyDiffText == DiffText("", 0)
CoreLen(core) ==
    CASE core = "" -> 0
      [] core = "a" -> 1
      [] core = "L" -> SubtitleLimit + 1
      [] OTHER -> SubtitleLimit
TextsOf(cores) == {DiffText(c, t) : c \in cores, t \in 0 .. MaxTrail}
\* title / appName, shortDescription / subtitle, fullDescription /
\* description of one locale.
Details ==
    [title : TextsOf({"", "a"}), short : TextsOf({"", "a", "L", "L30"}), full : TextsOf({"", "a"})]
NoDetail == [title |-> EmptyDiffText, short |-> EmptyDiffText, full |-> EmptyDiffText]

\* What the row meets: no counterpart locale, a detailJson that does not
\* parse, a locale the target store does not list, a listed locale
\* without stored detail, a listed locale with detail.
Situations == {"unmapped", "badJson", "new", "noDetail", "listed"}
Directions == {"iosToPlay", "playToIos"}
DiffRows ==
    {r \in [direction : Directions, situation : Situations,
            source : Details, stored : Details] :
        r.situation # "listed" => r.stored = NoDetail}

norm_Keep(s) == s

\* s.replace(/\s+$/, "")
norm(s) == [s EXCEPT !.trail = 0]

\* s.slice(0, 30)
Slice30(s) ==
    IF CoreLen(s.core) + s.trail <= SubtitleLimit THEN s
    ELSE IF CoreLen(s.core) > SubtitleLimit THEN DiffText("L30", 0)
    ELSE DiffText(s.core, SubtitleLimit - CoreLen(s.core))

FieldDiff(field, newValue, oldValue) ==
    [field |-> field, newValue |-> newValue, oldValue |-> oldValue]

\* The names of the target store's fields.
TargetField(direction, which) ==
    IF direction = "iosToPlay"
    THEN CASE which = "title" -> "title"
           [] which = "short" -> "shortDescription"
           [] OTHER -> "fullDescription"
    ELSE CASE which = "title" -> "appName"
           [] which = "short" -> "subtitle"
           [] OTHER -> "description"

\* fields: the FieldDiff entries of a row against the target's values.
ComputeFieldDiffs(direction, source, target) ==
    (IF norm(source.title) # norm(target.title)
     THEN {FieldDiff(TargetField(direction, "title"), source.title, target.title)}
     ELSE {})
    \cup
    (IF norm(source.short) # norm(target.short)
     THEN {FieldDiff(TargetField(direction, "short"),
                     IF direction = "playToIos" THEN Slice30(source.short)
                     ELSE source.short,
                     target.short)}
     ELSE {})
    \cup
    (IF norm(source.full) # norm(target.full)
     THEN {FieldDiff(TargetField(direction, "full"), source.full, target.full)}
     ELSE {})

\* One pass of the route's loop body.
PrepareRow(row) ==
    IF row.situation \in {"unmapped", "badJson"} \/ row.source.title = EmptyDiffText
    THEN [NoOutput EXCEPT !.kind = "skipped"]
    ELSE LET isNewLocale == row.situation = "new"
             target == IF row.situation = "listed" THEN row.stored ELSE NoDetail
             fields == ComputeFieldDiffs(row.direction, row.source, target)
         IN IF fields # {} \/ isNewLocale
            THEN [kind |-> "entry", isNewLocale |-> isNewLocale, fields |-> fields]
            ELSE [NoOutput EXCEPT !.kind = "same"]

InitDiff ==
    /\ JobsIdle
    /\ TrIdle
    /\ QueueIdle
    /\ ApplyIdle
    /\ RouteIdle
    /\ LocaleIdle
    /\ BatchIdle
    /\ LoopIdle
    /\ SyncIdle
    /\ TokenIdle
    /\ SnapIdle
    /\ PageIdle
    /\ EditIdle
    /\ AutoDiffIdle
    /\ ListsIdle
    /\ RaceIdle
    /\ diffRow \in DiffRows
    /\ diffOut = NoOutput

\* GET /api/apps/:id/prepare-ios-to-play: the row of one iOS locale.
PrepareIosToPlay ==
    /\ diffOut = NoOutput
    /\ diffRow.direction = "iosToPlay"
    /\ diffOut' = PrepareRow(diffRow)
    /\ UNCHANGED diffRow
    /\ UNCHANGED notDVars

\* GET /api/apps/:id/prepare-play-to-ios: the row of one Play locale.
PreparePlayToIos ==
    /\ diffOut = NoOutput
    /\ diffRow.direction = "playToIos"
    /\ diffOut' = PrepareRow(diffRow)
    /\ UNCHANGED diffRow
    /\ UNCHANGED notDVars

NextDiff == PrepareIosToPlay \/ PreparePlayToIos

SpecDiff == InitDiff /\ [][NextDiff]_vars

\* The three pairs of a row are equal once trailing whitespace is off.
PairsEqual ==
    /\ diffRow.source.title.core = diffRow.stored.title.core
    /\ diffRow.source.short.core = diffRow.stored.short.core
    /\ diffRow.source.full.core = diffRow.stored.full.core

\* C20: for a locale present in both stores whose mapped field pairs are
\* all equal after stripping trailing whitespace, the diff in either
\* direction has no FieldDiff and no entry for the locale.
C20_EqualSnapshotsNoDiff ==
    (diffOut # NoOutput /\ diffRow.situation = "listed" /\ PairsEqual)
       => diffOut.kind # "entry" /\ diffOut.fields = {}

\* A Play row whose texts differ from the stored iOS texts in trailing
\* whitespace only went through the diff and gave no entry.
C20_Witness ==
    /\ diffOut.kind = "same"
    /\ diffRow.direction = "playToIos"
    /\ diffRow.situation = "listed"
    /\ diffRow.source.title.trail # diffRow.stored.title.trail
    /\ diffRow.source.short.core = "L"
    /\ PairsEqual


(***************************************************************************)
(* Properties of the translate-then-shorten pipeline (Part 2), continued.  *)
(***************************************************************************)
\* The field whose limit is in bytes: the App Store keywords, for the CLI by
\* localizationFieldLengthUnit, for the web route by the unit of its rule.
ByteLimited(c, f) ==
    /\ f = "keywords"
    /\ \/ c.pipeline = "sync"
       \/ c.pipeline = "web" /\ c.kwUnit = "bytes"

\* n characters of w bytes each: n * w bytes for a byte-limited field, n
\* characters for every other field.
LengthInUnit(c, f, t) == IF ByteLimited(c, f) THEN t.n * t.w ELSE t.n

\* C21: a byte-limited field (the App Store keywords) is measured by its
\* encoded byte count and every other field by its character count, and the
\* measure in that unit is what is compared with the limit: the translated
\* text goes to the shorten call exactly when it is over the limit in the
\* field's unit, and the shortened text is refused exactly when it is; 50
\* three-byte characters measure 150 bytes.
C21_MeasuredInTheFieldsUnit ==
    [][ /\ measureFieldLength([n |-> 50, w |-> 3], "bytes") = 150
        /\ measureLocalizationFieldLength("keywords", [n |-> 50, w |-> 3]) = 150
        /\ \A t \in Texts :
             (tcfg.hasLimit /\ ServiceAnswer([status |-> "ok", text |-> t]))
               => IF tpc = "translate"
                  THEN (tpc' = "shorten")
                          <=> (LengthInUnit(tcfg, CurField, t) > FieldLimit)
                  ELSE (CurField \in stillOver')
                          <=> (LengthInUnit(tcfg, CurField, t) > FieldLimit)
      ]_vars

\* Keywords within the limit in characters but over it in bytes were handed
\* to the shorten call of the web route.
C21_Witness ==
    /\ tcfg.pipeline = "web"
    /\ tcfg.kwUnit = "bytes"
    /\ tpc = "shorten"
    /\ CurField = "keywords"
    /\ translated = [n |-> FieldLimit, w |-> 3]


\* The command runs in strict-limits mode (a CLI option; the web route has
\* none).
StrictMode == tcfg.pipeline # "web" /\ tcfg.strict

\* C22: when the text is still over the limit after the one shorten call,
\* then by default the field is left out of the locale's result, the
\* condition is reported (the field is recorded as skipped), no further call
\* is made for it and the run goes on with the next field; in strict mode
\* the whole run aborts with an error instead and nothing is recorded.
C22_StillOverSkipsOrAborts ==
    [][\A t \in Texts :
          ( /\ tpc = "shorten"
            /\ tcfg.hasLimit
            /\ Measure(tcfg, CurField, t) > FieldLimit
            /\ ServiceAnswer([status |-> "ok", text |-> t]) )
          => /\ updates' = updates
             /\ updates[CurField] = NoText
             /\ wrapCalls' = wrapCalls
             /\ IF StrictMode
                THEN tpc' = "aborted" /\ skippedF' = skippedF
                ELSE /\ skippedF' = skippedF \cup {CurField}
                     /\ tpc' = "field"
                     /\ tidx' = tidx + 1
      ]_vars

\* In default mode a field was skipped as still over the limit and the run
\* is translating the field after it.
C22_Witness ==
    /\ ~StrictMode
    /\ tpc = "translate"
    /\ tidx > 1
    /\ FieldsOf(tcfg.pipeline)[tidx - 1] \in skippedF \cap stillOver
    /\ updates[FieldsOf(tcfg.pipeline)[tidx - 1]] = NoText


\* C24: a failure of the text service that is not a rate-limit response is
\* never retried: the wrapper sends no further request and rethrows at once,
\* so a call whose first answer is such a failure ends after exactly one
\* request.
C24_OtherFailureNotRetried ==
    [][ ( /\ tpc \in {"translate", "shorten"}
          /\ ServiceAnswer([status |-> "500", text |-> NoText]) )
        => /\ tpc' \notin {"translate", "shorten"}
           /\ attempt' = 0
           /\ wrapCalls' = wrapCalls
           /\ lastWrap' = [kind |-> tpc, calls |-> attempt + 1,
                           threw |-> TRUE, status |-> "500"]
           /\ (attempt = 0 => lastWrap'.calls = 1)
      ]_vars

\* A wrapper allowed several retries threw a non-rate-limit failure after
\* its one request.
C24_Witness ==
    /\ tcfg.maxRetries > 1
    /\ lastWrap.threw
    /\ lastWrap.status = "500"
    /\ lastWrap.calls = 1


\* C25: a field's non-rate-limit failure is reported as an error for that
\* field and the run still attempts every remaining field of the locale:
\* after the failure the field loop is at the next field.
C25_FailureReportedRunContinues ==
    [][ ( /\ tpc \in {"translate", "shorten"}
          /\ ServiceAnswer([status |-> "500", text |-> NoText]) )
        => /\ tpc' = "field"
           /\ tidx' = tidx + 1
      ]_vars


(***************************************************************************)
(* Part 8: one batch of POST /api/apps/:id/generate-translations           *)
(* (server.ts), from the point where the request has been validated and    *)
(* the NDJSON stream is about to open.  Phase 1 translates the title for   *)
(* every locale of the work list, phase 2 the other fields locale by       *)
(* locale.  A call of translateWithRetry / shortenWithRetry is one step    *)
(* here; its retries are those of Part 2.                                  *)
(***************************************************************************)
\* The App Store fields with a limit, title first.
titleFieldId == "appName"
otherFields == <<"subtitle", "keywords">>
translatableFields == <<titleFieldId>> \o otherFields
\* The target locales, sorted by localeCompare.
BatchLocales == <<"de", "tr">>
\* The titles the text service may return.
TitleTexts == {"t1", "t2"}

SeqToSet(s) == {s[i] : i \in 1 .. Len(s)}

\* A batch: the fields with source text (sourceTexts, not empty) and the
\* work list.  targetLocales holds only locales without a stored detail, so
\* targetDetail is null and missingFields is the same for every locale: the
\* fields with source text.
BatchConfigs ==
    {[sourceTexts |-> st, localeWorkList |-> SubSeq(BatchLocales, 1, n)] :
        st \in (SUBSET SeqToSet(translatableFields)) \ {{}},
        n \in 1 .. Len(BatchLocales)}

\* remainingFields of a locale, in the order of translatableFields.
remainingFields == SelectSeq(otherFields, LAMBDA f : f \in bcfg.sourceTexts)

Event(type, locale, field, status) ==
    [type |-> type, locale |-> locale, field |-> field, status |-> status]
writeLine(log, ev) == Append(log, ev)

\* Line 1713: translatedTitles.get(lw.locale) ?? (existingTitle || undefined),
\* existingTitle being "" for a null targetDetail.
appTitle_Undefined(l) == "undefined"
appTitle(l) ==
    IF translatedTitles[l] # "none" THEN translatedTitles[l] ELSE "undefined"

InitBatch ==
    /\ JobsIdle
    /\ TrIdle
    /\ QueueIdle
    /\ ApplyIdle
    /\ RouteIdle
    /\ LocaleIdle
    /\ DiffIdle
    /\ LoopIdle
    /\ SyncIdle
    /\ TokenIdle
    /\ SnapIdle
    /\ PageIdle
    /\ EditIdle
    /\ AutoDiffIdle
    /\ ListsIdle
    /\ RaceIdle
    /\ bcfg \in BatchConfigs
    /\ bpc = "ready"
    /\ bkind = "none"
    /\ bloc = 1
    /\ bfld = 1
    /\ translatedTitles = [l \in SeqToSet(BatchLocales) |-> "none"]
    /\ translatedFields = {}
    /\ events = <<>>
    /\ calls = <<>>
    /\ translatedCount = 0

BatchLocale == bcfg.localeWorkList[bloc]
BatchField == IF bpc = "p1call" THEN titleFieldId ELSE remainingFields[bfld]

\* Lines 1593-1602: the stream opens with the start event.
WriteStart ==
    /\ bpc = "ready"
    /\ events' = writeLine(events, Event("start", "", "", ""))
    /\ bpc' = "p1loop"
    /\ UNCHANGED <<bcfg, bkind, bloc, bfld, translatedTitles, translatedFields,
                   calls, translatedCount>>
    /\ UNCHANGED notBVars

\* The head of the phase 1 loop (1678-1680): the next locale's title goes to
\* translateField, or phase 1 is over.
TitleLoop ==
    /\ bpc = "p1loop"
    /\ IF titleFieldId \in bcfg.sourceTexts /\ bloc <= Len(bcfg.localeWorkList)
       THEN /\ bpc' = "p1call"
            /\ bkind' = "translate"
            /\ calls' = Append(calls, [kind |-> "translate", locale |-> BatchLocale,
                                       field |-> titleFieldId,
                                       appTitle |-> "undefined"])
            /\ UNCHANGED bloc
       ELSE /\ bpc' = "p2locale"
            /\ bloc' = 1
            /\ UNCHANGED <<bkind, calls>>
    /\ UNCHANGED <<bcfg, bfld, translatedTitles, translatedFields, events,
                   translatedCount>>
    /\ UNCHANGED notBVars

\* The head of the phase 2 loop (1698-1718, 1767-1772): the locale's title
\* of phase 1 opens translatedFields; past the last locale the done event
\* closes the stream.
LocaleLoop ==
    /\ bpc = "p2locale"
    /\ IF bloc <= Len(bcfg.localeWorkList)
       THEN /\ translatedFields' =
                   IF translatedTitles[BatchLocale] # "none"
                   THEN {titleFieldId} ELSE {}
            /\ bfld' = 1
            /\ bpc' = "p2loop"
            /\ UNCHANGED events
       ELSE /\ events' = writeLine(events, Event("done", "", "", ""))
            /\ bpc' = "closed"
            /\ UNCHANGED <<translatedFields, bfld>>
    /\ UNCHANGED <<bcfg, bkind, bloc, translatedTitles, calls, translatedCount>>
    /\ UNCHANGED notBVars

\* The head of the field loop of a locale (1720-1729, 1744-1765): the next
\* remaining field goes to translateField with the resolved title; past the
\* last field the locale_done event is written if anything was translated.
FieldLoop ==
    /\ bpc = "p2loop"
    /\ IF bfld <= Len(remainingFields)
       THEN /\ bpc' = "p2call"
            /\ bkind' = "translate"
            /\ calls' = Append(calls, [kind |-> "translate", locale |-> BatchLocale,
                                       field |-> remainingFields[bfld],
                                       appTitle |-> appTitle(BatchLocale)])
            /\ UNCHANGED <<bloc, events, translatedCount>>
       ELSE /\ translatedCount' = IF translatedFields # {}
                                  THEN translatedCount + 1
                                  ELSE translatedCount
            /\ events' = IF translatedFields # {}
                         THEN writeLine(events,
                                        Event("locale_done", BatchLocale, "", ""))
                         ELSE events
            /\ bloc' = bloc + 1
            /\ bpc' = "p2locale"
            /\ UNCHANGED <<bkind, calls>>
    /\ UNCHANGED <<bcfg, bfld, translatedTitles, translatedFields>>
    /\ UNCHANGED notBVars

\* translateField returned to its loop (1683-1686, 1730-1733).
FieldReturned(log, ok, text) ==
    /\ events' = log
    /\ bkind' = "none"
    /\ IF bpc = "p1call"
       THEN /\ translatedTitles' =
                   IF ok THEN [translatedTitles EXCEPT ![BatchLocale] = text]
                   ELSE translatedTitles
            /\ bloc' = bloc + 1
            /\ bpc' = "p1loop"
            /\ UNCHANGED <<bfld, translatedFields>>
       ELSE /\ translatedFields' =
                   IF ok THEN translatedFields \cup {BatchField}
                   ELSE translatedFields
            /\ bfld' = bfld + 1
            /\ bpc' = "p2loop"
            /\ UNCHANGED <<bloc, translatedTitles>>
    /\ UNCHANGED calls

\* translateField threw (1687-1690, 1734-1747): an error event; in phase 2
\* with nothing translated for the locale the locale is left with a
\* locale_skip event.
FieldThrew ==
    LET log == writeLine(events, Event("error", BatchLocale, BatchField, ""))
    IN /\ bkind' = "none"
       /\ IF bpc = "p1call"
          THEN /\ events' = log
               /\ bloc' = bloc + 1
               /\ bpc' = "p1loop"
               /\ UNCHANGED bfld
          ELSE IF translatedFields = {}
               THEN /\ events' = writeLine(log, Event("locale_skip", BatchLocale,
                                                      "", ""))
                    /\ bloc' = bloc + 1
                    /\ bpc' = "p2locale"
                    /\ UNCHANGED bfld
               ELSE /\ events' = log
                    /\ bfld' = bfld + 1
                    /\ bpc' = "p2loop"
                    /\ UNCHANGED bloc
       /\ UNCHANGED <<translatedTitles, translatedFields, calls>>

\* The wrapper call in flight ends (translateField, 1607-1673): with a text
\* within the limit, with a text over it, or by throwing.
CallEnds(outcome, text) ==
    /\ bpc \in {"p1call", "p2call"}
    /\ LET progress == writeLine(events, Event("progress", BatchLocale, BatchField,
                                    IF bkind = "translate" THEN "translated"
                                    ELSE "shortened"))
       IN CASE outcome = "threw" -> FieldThrew
            [] outcome = "fits" -> FieldReturned(progress, TRUE, text)
            [] outcome = "over" /\ bkind = "translate" ->
                   /\ events' = progress
                   /\ bkind' = "shorten"
                   /\ calls' = Append(calls, [kind |-> "shorten",
                                              locale |-> BatchLocale,
                                              field |-> BatchField,
                                              appTitle |-> "undefined"])
                   /\ UNCHANGED <<bpc, bloc, bfld, translatedTitles,
                                  translatedFields>>
            [] OTHER ->
                   FieldReturned(writeLine(progress,
                                           Event("error", BatchLocale, BatchField, "")),
                                 FALSE, text)
    /\ UNCHANGED <<bcfg, translatedCount>>
    /\ UNCHANGED notBVars

RouteCatch_StaysOpen ==
    /\ bpc = "p2loop"
    /\ bfld > Len(remainingFields)
    /\ translatedFields # {}
    /\ events' = writeLine(events, Event("fatal", "", "", ""))
    /\ bloc' = bloc + 1
    /\ bpc' = "p2locale"
    /\ translatedCount' = translatedCount + 1
    /\ UNCHANGED <<bcfg, bkind, bfld, translatedTitles, translatedFields, calls>>
    /\ UNCHANGED notBVars
\* An unexpected error once the stream is open (1773-1782), here
\* repo.listStoreLocales throwing at line 1751, after translatedCount++: the
\* fatal event closes the stream.
RouteCatch ==
    /\ bpc = "p2loop"
    /\ bfld > Len(remainingFields)
    /\ translatedFields # {}
    /\ translatedCount' = translatedCount + 1
    /\ events' = writeLine(events, Event("fatal", "", "", ""))
    /\ bpc' = "closed"
    /\ UNCHANGED <<bcfg, bkind, bloc, bfld, translatedTitles, translatedFields,
                   calls>>
    /\ UNCHANGED notBVars

NextBatch ==
    \/ WriteStart
    \/ TitleLoop
    \/ LocaleLoop
    \/ FieldLoop
    \/ bpc \in {"p1call", "p2call"}
         /\ \E outcome \in {"fits", "over", "threw"}, text \in TitleTexts :
               CallEnds(outcome, text)
    \/ RouteCatch

SpecBatch == InitBatch /\ [][NextBatch]_vars
\* Every awaited call of the text service settles and the route's
\* continuation then runs.
SpecBatchLive == SpecBatch /\ WF_vars(NextBatch)


ClosingTypes == {"done", "fatal"}
MiddleTypes == {"progress", "error", "locale_done", "locale_skip"}
\* The most events a batch can write: start, three per field of each
\* locale, two for each locale, the closing event.
MostEvents ==
    2 + Len(bcfg.localeWorkList) * (3 * Len(translatableFields) + 2)

\* The stream as written so far: start is first and written once, what
\* follows it is a field progress, error, locale_done or locale_skip event,
\* a closing event is last and only there, and the stream is closed exactly
\* when the closing event is written.
EventsOrdered ==
    /\ Len(events) <= MostEvents
    /\ (bpc \notin {"off", "ready"}) <=> (Len(events) > 0)
    /\ \A i \in 1 .. Len(events) :
          /\ (events[i].type = "start") <=> (i = 1)
          /\ (events[i].type \in ClosingTypes)
                => i = Len(events) /\ i > 1 /\ bpc = "closed"
          /\ events[i].type \in {"start"} \cup MiddleTypes \cup ClosingTypes
    /\ bpc = "closed" => events[Len(events)].type \in ClosingTypes

\* C23: the event sequence of one translation batch is finite and ordered:
\* exactly one start event comes first, every field progress or error event
\* and every locale_done or locale_skip event follows it, and exactly one
\* closing event (done, or fatal on an unexpected error) comes last, with no
\* event after it; every batch reaches its closing event.
C23_OneStartThenEventsThenOneClose ==
    /\ []EventsOrdered
    /\ [][bpc = "closed" => events' = events]_vars
    /\ <>(bpc = "closed")

\* A batch over two locales closed with done after a field error, a skipped
\* locale and a finished locale.
C23_Witness ==
    /\ bpc = "closed"
    /\ events[Len(events)].type = "done"
    /\ \E i, j, k \in 2 .. Len(events) - 1 :
          /\ events[i].type = "locale_skip"
          /\ events[j].type = "locale_done"
          /\ events[k].type = "progress"

TextLen(s) == CoreLen(s.core) + s.trail
SubtitleDiffs == {d \in diffOut.fields : d.field = "subtitle"}

\* C27: the Play-to-iOS diff truncates the candidate subtitle to 30
\* characters before the comparison and before proposing it: a proposed
\* subtitle never has more than 30 characters, and a stored subtitle equal
\* (trailing whitespace apart) to the truncated candidate gives no subtitle
\* FieldDiff.
C27_TruncatedBeforeCompared ==
    (diffRow.direction = "playToIos" /\ diffOut.kind \in {"entry", "same"})
       => /\ \A d \in SubtitleDiffs : TextLen(d.newValue) <= SubtitleLimit
          /\ (diffRow.situation = "listed"
                /\ norm(diffRow.stored.short) = norm(Slice30(diffRow.source.short)))
               => SubtitleDiffs = {}


\* A mapped field pair of the row differs once trailing whitespace is off.
SomePairDiffers ==
    LET target == IF diffRow.situation = "listed" THEN diffRow.stored ELSE NoDetail
    IN \/ norm(diffRow.source.title) # norm(target.title)
       \/ norm(diffRow.source.short) # norm(target.short)
       \/ norm(diffRow.source.full) # norm(target.full)

\* The emission rule of both routes: a row that is not skipped gives an
\* entry exactly when a mapped field differs or the target store does not
\* list the locale, and the entry carries isNewLocale in the latter case,
\* with or without field diffs.
DiffEntryIffDiffersOrNew ==
    diffOut.kind \in {"entry", "same"}
       => /\ (diffOut.kind = "entry")
                <=> (SomePairDiffers \/ diffRow.situation = "new")
          /\ diffOut.isNewLocale <=> (diffRow.situation = "new")
          /\ (diffOut.fields # {}) <=> SomePairDiffers

\* The entries of a diff result that stand for a locale the target store
\* does not list.
NewLocaleEntries ==
    {e \in UNION {DiffEntries(st) : st \in Stores} : e.isNewLocale}

\* C28: a diff entry is emitted for a source locale that is not skipped
\* exactly when a mapped field differs or the target store does not list the
\* mapped locale; in the latter case the entry has isNewLocale = true, with
\* or without field diffs, and consuming it queues a locale add: after
\* populateQueueFromDiff the queue holds the add of that locale.
C28_NewLocaleEntryQueuesAdd ==
    [][ /\ DiffEntryIffDiffersOrNew
        /\ \A e \in NewLocaleEntries :
              PopulateQueue(<<e>>)
                => LET localeKey == toStoreLocaleChangeKey(e.targetStore,
                                                           e.targetLocale)
                   IN /\ localeKey \in DOMAIN pendingStoreChanges'
                      /\ pendingStoreChanges'[localeKey].action = "add"
      ]_vars


(***************************************************************************)
(* Part 9: the loop of a prepare-diff route over the rows of the source    *)
(* store (server.ts, `for (const row of iosDetails)` and `for (const row   *)
(* of playDetails)`).  Each row is one source locale and goes through the  *)
(* loop body of Part 7.                                                    *)
(***************************************************************************)
MaxRows == 2

\* The rows explored: any situation, a title that is empty, blank or a
\* text, no other source text, and a stored title that is empty or a text.
RowChoices(direction) ==
    {r \in [direction : {direction}, situation : Situations,
            source : {[NoDetail EXCEPT !.title = t] :
                         t \in {EmptyDiffText, DiffText("", 1), DiffText("a", 0)}},
            stored : {NoDetail, [NoDetail EXCEPT !.title = DiffText("a", 0)]}] :
        r.situation # "listed" => r.stored = NoDetail}
RowLists(direction) ==
    UNION {[1 .. n -> RowChoices(direction)] : n \in 0 .. MaxRows}

SkipReason_Empty(row) == ""
\* The reason of a skipped record.
SkipReason(row) ==
    CASE row.situation = "unmapped" -> "no counterpart in the target store"
      [] row.situation = "badJson" -> "detail JSON parse error"
      [] OTHER -> "title (appName) empty"

InitLoop ==
    /\ JobsIdle
    /\ TrIdle
    /\ QueueIdle
    /\ ApplyIdle
    /\ RouteIdle
    /\ LocaleIdle
    /\ DiffIdle
    /\ BatchIdle
    /\ SyncIdle
    /\ TokenIdle
    /\ SnapIdle
    /\ PageIdle
    /\ EditIdle
    /\ AutoDiffIdle
    /\ ListsIdle
    /\ RaceIdle
    /\ loopDirection \in Directions
    /\ loopRows \in RowLists(loopDirection)
    /\ loopIdx = 1
    /\ outEntries = <<>>
    /\ outSkipped = <<>>

\* One pass of the loop: skipped.push and continue, or the comparison and,
\* with a difference or a new locale, entries.push.
LoopStep ==
    /\ loopDirection \in Directions
    /\ loopIdx <= Len(loopRows)
    /\ LET row == loopRows[loopIdx]
           out == PrepareRow(row)
       IN CASE out.kind = "skipped" ->
                  /\ outSkipped' = Append(outSkipped,
                                          [locale |-> loopIdx,
                                           reason |-> SkipReason(row)])
                  /\ UNCHANGED outEntries
            [] out.kind = "entry" ->
                  /\ outEntries' = Append(outEntries,
                                          [locale |-> loopIdx,
                                           isNewLocale |-> out.isNewLocale,
                                           fields |-> out.fields])
                  /\ UNCHANGED outSkipped
            [] OTHER -> UNCHANGED <<outEntries, outSkipped>>
    /\ loopIdx' = loopIdx + 1
    /\ UNCHANGED <<loopDirection, loopRows>>
    /\ UNCHANGED notPVars

NextLoop == LoopStep

SpecLoop == InitLoop /\ [][NextLoop]_vars

\* The records pushed for the locale of row i.
SkippedOf(i) == {k \in 1 .. Len(outSkipped) : outSkipped[k].locale = i}
EntriesOf(i) == {k \in 1 .. Len(outEntries) : outEntries[k].locale = i}
\* The locale of the row has no counterpart or its title is empty.
Unusable(row) ==
    \/ row.situation = "unmapped"
    \/ row.situation # "badJson" /\ row.source.title = EmptyDiffText

\* C29: a source locale with no mapping, or whose identity field (title,
\* appName) is empty, gives exactly one skipped record with a reason and no
\* diff entry, and the diff still processes every other source locale: each
\* row the loop has passed has its own outcome, whatever was skipped before
\* it.
C29_SkippedOnceOthersProcessed ==
    \A i \in 1 .. Len(loopRows) :
       i < loopIdx
         => LET row == loopRows[i]
            IN /\ Unusable(row)
                    => /\ Cardinality(SkippedOf(i)) = 1
                       /\ \A k \in SkippedOf(i) : outSkipped[k].reason # ""
                       /\ EntriesOf(i) = {}
               /\ PrepareRow(row).kind # "skipped"
                    => /\ SkippedOf(i) = {}
                       /\ Cardinality(EntriesOf(i)) =
                             IF PrepareRow(row).kind = "entry" THEN 1 ELSE 0

\* The loop is through two rows: the first had no counterpart and was
\* skipped, the second gave an entry.
C29_Witness ==
    /\ Len(loopRows) = 2
    /\ loopIdx = 3
    /\ loopRows[1].situation = "unmapped"
    /\ Cardinality(SkippedOf(1)) = 1
    /\ Cardinality(EntriesOf(2)) = 1


(***************************************************************************)
(* Part 10: POST /api/apps/:id/locales/sync for one app (server.ts) and    *)
(* the two replace functions of the repository (db.ts).  The route fetches *)
(* the snapshot of each store in scope and replaces what is stored for     *)
(* that store; while a fetch is awaited the app may be deleted.            *)
(***************************************************************************)
MaxSnapLocales == 2

\* A snapshot: the locales of its localizations in order (canonical codes,
\* possibly the same code twice), for the App Store the locales that have
\* app-info names, and when it was fetched.
SnapshotsOf(store, fetchedAt) ==
    {[locales |-> ls, appInfoNames |-> ai, fetchedAt |-> fetchedAt] :
        ls \in UNION {[1 .. n -> Locales] : n \in 0 .. MaxSnapLocales},
        ai \in IF store = "app_store" THEN SUBSET Locales ELSE {{}}}
\* What an earlier sync left in the database.
EarlierSnapshots ==
    {[locales |-> ls, appInfoNames |-> {}, fetchedAt |-> 0] :
        ls \in {<<>>, <<"tr">>, <<"de", "tr">>}}

\* Array.from(new Set(locales.map(trim).filter(nonempty))): the first
\* occurrence of each locale, in order.
RECURSIVE normalized(_)
normalized(locales) ==
    IF locales = <<>> THEN <<>>
    ELSE LET front == normalized(SubSeq(locales, 1, Len(locales) - 1))
             last == Trim(locales[Len(locales)])
         IN IF last = "" \/ last \in SeqToSet(front) THEN front
            ELSE Append(front, last)

\* buildAppStoreDetailEntries / buildPlayStoreDetailEntries and the dedup
\* map of replaceStoreLocaleDetails: one detail per locale of the snapshot.
DetailEntries(store, snapshot) ==
    [l \in SeqToSet(snapshot.locales) \cup snapshot.appInfoNames |->
        [fetchedAt |-> snapshot.fetchedAt,
         localized |-> l \in SeqToSet(snapshot.locales)]]

\* An INSERT of a row for an app whose row is gone fails on the foreign key.
InsertThrows(rows) == ~syncApp /\ rows # {}

\* replaceStoreLocales: DELETE the store's rows, INSERT the new list.
replaceStoreLocales(list, store, locales) ==
    [list EXCEPT ![store] = normalized(locales)]

replaceStoreLocaleDetails_Upsert(details, store, entries) ==
    [details EXCEPT ![store] =
        [l \in DOMAIN @ \cup DOMAIN entries |->
            IF l \in DOMAIN entries THEN entries[l] ELSE @[l]]]
\* replaceStoreLocaleDetails: DELETE the store's rows, INSERT the entries.
replaceStoreLocaleDetails(details, store, entries) ==
    [details EXCEPT ![store] = entries]

SyncPcOf(store) == IF store = "app_store" THEN "appStore" ELSE "playStore"
\* Where the route goes after the block of a store.
AfterStore(store) ==
    IF store = "app_store" /\ syncScope = "both" THEN "playStore" ELSE "done"

InitSync ==
    /\ JobsIdle
    /\ TrIdle
    /\ QueueIdle
    /\ ApplyIdle
    /\ RouteIdle
    /\ LocaleIdle
    /\ DiffIdle
    /\ BatchIdle
    /\ LoopIdle
    /\ TokenIdle
    /\ SnapIdle
    /\ PageIdle
    /\ EditIdle
    /\ AutoDiffIdle
    /\ ListsIdle
    /\ RaceIdle
    /\ syncApp = TRUE
    /\ \E a, p \in EarlierSnapshots :
          /\ dbLocales = [s \in Stores |->
                            normalized(IF s = "app_store" THEN a.locales
                                       ELSE p.locales)]
          /\ dbDetails = [s \in Stores |->
                            DetailEntries(s, IF s = "app_store" THEN a ELSE p)]
    /\ syncPc = "idle"
    /\ syncScope = "none"
    /\ syncPayload = NoPayload
    /\ lastSnapshot = [s \in Stores |-> NoSnapshot]

\* The call arrives: mustGetApp, parseStoreScope, the first fetch starts.
SyncCall(storeScope) ==
    /\ syncPc = "idle"
    /\ syncApp
    /\ syncScope' = storeScope
    /\ syncPc' = IF storeScope = "play_store" THEN "playStore" ELSE "appStore"
    /\ UNCHANGED <<syncApp, dbLocales, dbDetails, syncPayload, lastSnapshot>>
    /\ UNCHANGED notYVars

\* The fetch of a store's snapshot resolved: the list is replaced, then the
\* details; an error of either lands in the catch of the store's block.
SnapshotFetched(store, snapshot) ==
    /\ syncPc = SyncPcOf(store)
    /\ lastSnapshot' = [lastSnapshot EXCEPT ![store] = snapshot]
    /\ LET locales == snapshot.locales
           detailEntries == DetailEntries(store, snapshot)
       IN IF InsertThrows(SeqToSet(normalized(locales)))
          THEN /\ syncPayload' = [syncPayload EXCEPT ![store] = "failed"]
               /\ UNCHANGED <<dbLocales, dbDetails>>
          ELSE /\ dbLocales' = replaceStoreLocales(dbLocales, store, locales)
               /\ IF InsertThrows(DOMAIN detailEntries)
                  THEN /\ syncPayload' = [syncPayload EXCEPT ![store] = "failed"]
                       /\ UNCHANGED dbDetails
                  ELSE /\ dbDetails' = replaceStoreLocaleDetails(
                                           dbDetails, store, detailEntries)
                       /\ syncPayload' = [syncPayload EXCEPT ![store] = "synced"]
    /\ syncPc' = AfterStore(store)
    /\ UNCHANGED <<syncApp, syncScope>>
    /\ UNCHANGED notYVars

\* The fetch rejected.
SnapshotFailed(store) ==
    /\ syncPc = SyncPcOf(store)
    /\ syncPayload' = [syncPayload EXCEPT ![store] = "failed"]
    /\ syncPc' = AfterStore(store)
    /\ UNCHANGED <<syncApp, dbLocales, dbDetails, syncScope, lastSnapshot>>
    /\ UNCHANGED notYVars

\* DELETE /api/apps/:id while a fetch is awaited: the rows of the app go
\* with it (ON DELETE CASCADE).
DeleteSyncedApp ==
    /\ syncPc \in {"appStore", "playStore"}
    /\ syncApp
    /\ syncApp' = FALSE
    /\ dbLocales' = [s \in Stores |-> <<>>]
    /\ dbDetails' = [s \in Stores |-> [l \in {} |-> 0]]
    /\ UNCHANGED <<syncPc, syncScope, syncPayload, lastSnapshot>>
    /\ UNCHANGED notYVars

NextSync ==
    \/ \E storeScope \in StoreScopes : SyncCall(storeScope)
    \/ \E store \in Stores :
          syncPc = SyncPcOf(store)
            /\ \E snapshot \in SnapshotsOf(store, 1) :
                  SnapshotFetched(store, snapshot)
    \/ \E store \in Stores : SnapshotFailed(store)
    \/ DeleteSyncedApp

SpecSync == InitSync /\ [][NextSync]_vars

\* C30: after a successful sync of a store the stored locale list and the
\* stored details of that store are exactly those of the newly fetched
\* snapshot, nothing of the previous snapshot surviving, and the other
\* store's locales and details are as they were before that replace.
C30_SyncReplacesOneStoreOnly ==
    [][\A store \in Stores :
          (syncPayload[store] # "synced" /\ syncPayload'[store] = "synced")
            => LET snapshot == lastSnapshot'[store]
                   other == OtherStore(store)
               IN /\ SeqToSet(dbLocales'[store]) = SeqToSet(snapshot.locales)
                  /\ Cardinality(SeqToSet(dbLocales'[store]))
                        = Len(dbLocales'[store])
                  /\ DOMAIN dbDetails'[store]
                        = SeqToSet(snapshot.locales) \cup snapshot.appInfoNames
                  /\ \A l \in DOMAIN dbDetails'[store] :
                        dbDetails'[store][l].fetchedAt = snapshot.fetchedAt
                  /\ dbLocales'[other] = dbLocales[other]
                  /\ dbDetails'[other] = dbDetails[other]
      ]_vars

\* The App Store was synced to a snapshot without "de", which the earlier
\* snapshot had; nothing of "de" is left, and the Play Store still has its
\* two locales and their earlier details.
C30_Witness ==
    /\ syncPayload["app_store"] = "synced"
    /\ syncPc = "done"
    /\ lastSnapshot["app_store"].locales = <<"tr">>
    /\ lastSnapshot["app_store"].appInfoNames = {}
    /\ dbLocales["app_store"] = <<"tr">>
    /\ DOMAIN dbDetails["app_store"] = {"tr"}
    /\ dbDetails["app_store"]["tr"].fetchedAt = 1
    /\ dbLocales["play_store"] = <<"de", "tr">>
    /\ \A l \in {"de", "tr"} : dbDetails["play_store"][l].fetchedAt = 0


\* ---------------------------------------------------------------------------
\* Part 11: the access token of a storefront client
\* (AscClient.getToken, src/index.ts; GpcClient.getAccessToken,
\* src/gpcClient.ts). Both clients keep one token and its expiry; request()
\* awaits the token and sends the request with it.
\* ---------------------------------------------------------------------------

\* The number of concurrent request() calls of one client.
MaxCallers == 2
\* The number of tokens issued in one run.
MaxIssued == 2
\* The number of times the clock advances in one run.
MaxTicks == 3

\* `now < this.tokenExpiry - 60`
RefreshMargin == 60
\* `exp = now + 20 * 60`
AscLifetime == 20 * 60
\* `now + (data.expires_in ?? 3600)`
GpcLifetime == 3600
\* An expires_in of the token endpoint that is shorter than the margin.
ShortExpiresIn == 30

TokenClients == {"asc", "gpc"}

\* The lifetimes a newly issued token can have: the constant of the App Store
\* client, expires_in of the answer (or the default) for Google Play.
Lifetimes(client) ==
    IF client = "asc" THEN {AscLifetime} ELSE {GpcLifetime, ShortExpiresIn}

\* The amounts by which the clock advances between two steps: a second, and
\* the time that brings a token of full lifetime to one second before the
\* margin.
Ticks(client) ==
    IF client = "asc"
    THEN {1, AscLifetime - RefreshMargin - 1}
    ELSE {1, GpcLifetime - RefreshMargin - 1}

IdleCall == [pc |-> "idle", now |-> 0]

InitToken ==
    /\ JobsIdle
    /\ TrIdle
    /\ QueueIdle
    /\ ApplyIdle
    /\ RouteIdle
    /\ LocaleIdle
    /\ DiffIdle
    /\ BatchIdle
    /\ LoopIdle
    /\ SyncIdle
    /\ SnapIdle
    /\ PageIdle
    /\ EditIdle
    /\ AutoDiffIdle
    /\ ListsIdle
    /\ RaceIdle
    /\ tkClient \in TokenClients
    /\ tkClock = 0
    /\ tkTicks = 0
    /\ tokenValue = 0
    /\ tokenExpiry = 0
    /\ tkCalls = [c \in 1..MaxCallers |-> IdleCall]
    /\ tkIssued = 0
    /\ tkSent = NoRequest

\* The condition of the early return without the margin.
useCachedToken_NoMargin(now) ==
    tokenValue # 0 /\ tokenExpiry # 0 /\ now < tokenExpiry

\* `if (this.tokenValue && this.tokenExpiry && now < this.tokenExpiry - 60)
\*      return this.tokenValue;`
useCachedToken(now) ==
    tokenValue # 0 /\ tokenExpiry # 0 /\ now < tokenExpiry - RefreshMargin

\* Time passes.
Tick(d) ==
    /\ tkTicks < MaxTicks
    /\ tkClock' = tkClock + d
    /\ tkTicks' = tkTicks + 1
    /\ UNCHANGED <<tkClient, tokenValue, tokenExpiry, tkCalls, tkIssued, tkSent>>
    /\ UNCHANGED notKVars

\* request(): `const token = await this.getToken()` up to the first await that
\* leaves the tick. With a usable cached token the request is sent at once;
\* otherwise the call reads `now` and starts to issue a token.
Request(c) ==
    /\ tkCalls[c].pc = "idle"
    /\ IF useCachedToken(tkClock)
       THEN /\ tkSent' = [token |-> tokenValue, expiry |-> tokenExpiry,
                          at |-> tkClock, cached |-> TRUE]
            /\ UNCHANGED <<tkCalls, tkIssued>>
       ELSE /\ tkIssued < MaxIssued
            /\ tkCalls' = [tkCalls EXCEPT ![c] = [pc |-> "issuing", now |-> tkClock]]
            /\ UNCHANGED <<tkSent, tkIssued>>
    /\ UNCHANGED <<tkClient, tkClock, tkTicks, tokenValue, tokenExpiry>>
    /\ UNCHANGED notKVars

\* The key is read and the token signed (App Store) or the token endpoint
\* answers (Google Play): the token and its expiry, counted from the `now` read
\* at the start of the call, are stored together, and the request is sent.
TokenIssued(c, lifetime) ==
    /\ tkCalls[c].pc = "issuing"
    /\ tkIssued < MaxIssued
    /\ tkIssued' = tkIssued + 1
    /\ tokenValue' = tkIssued + 1
    /\ tokenExpiry' = tkCalls[c].now + lifetime
    /\ tkSent' = [token |-> tkIssued + 1, expiry |-> tkCalls[c].now + lifetime,
                  at |-> tkClock, cached |-> FALSE]
    /\ tkCalls' = [tkCalls EXCEPT ![c] = IdleCall]
    /\ UNCHANGED <<tkClient, tkClock, tkTicks>>
    /\ UNCHANGED notKVars

\* Reading the key throws, or the token endpoint answers with an error: the
\* call throws, no request is sent and the cache stays as it was.
TokenFailed(c) ==
    /\ tkCalls[c].pc = "issuing"
    /\ tkCalls' = [tkCalls EXCEPT ![c] = IdleCall]
    /\ UNCHANGED <<tkClient, tkClock, tkTicks, tokenValue, tokenExpiry, tkIssued, tkSent>>
    /\ UNCHANGED notKVars

NextToken ==
    \/ \E d \in Ticks(tkClient) : Tick(d)
    \/ \E c \in 1..MaxCallers : Request(c)
    \/ \E c \in 1..MaxCallers : \E lifetime \in Lifetimes(tkClient) :
           TokenIssued(c, lifetime)
    \/ \E c \in 1..MaxCallers : TokenFailed(c)

SpecToken == InitToken /\ [][NextToken]_vars

\* ---------------------------------------------------------------------------
\* Properties of the access token cache (Part 11)
\* ---------------------------------------------------------------------------

\* A token is cached and the clock is more than 60 seconds before its expiry.
CachedAndFresh == tokenValue # 0 /\ tokenExpiry - tkClock > 60

\* The call answered from the cache: the cached token is sent, nothing issued.
AnsweredFromCache ==
    /\ tkSent' = [token |-> tokenValue, expiry |-> tokenExpiry,
                  at |-> tkClock, cached |-> TRUE]
    /\ tkIssued' = tkIssued
    /\ tokenValue' = tokenValue
    /\ tokenExpiry' = tokenExpiry
    /\ \A c \in 1..MaxCallers : tkCalls'[c].pc = "issuing" => tkCalls[c].pc = "issuing"

\* The call went on to issue a token: nothing is sent from the cache.
StartsIssuing(c) ==
    /\ tkCalls'[c].pc = "issuing"
    /\ tkSent' = tkSent

\* An issued token is cached together with its expiry.
IssuedIsCached ==
    tkIssued' # tkIssued =>
        /\ tokenValue' = tkIssued'
        /\ tkSent'.token = tokenValue'
        /\ tkSent'.expiry = tokenExpiry'
        /\ ~tkSent'.cached

\* C31: a request() call returns the cached token without issuing one exactly
\* when a token is cached and the clock is more than 60 seconds before its
\* recorded expiry; otherwise it issues a token, which is cached; so no request
\* is sent with a cached token that is within 60 seconds of its expiry.
C31_CachedTokenOnlyBeforeMargin ==
    [][ /\ \A c \in 1..MaxCallers :
               Request(c) => IF CachedAndFresh THEN AnsweredFromCache
                                               ELSE StartsIssuing(c)
        /\ IssuedIsCached
        /\ tkSent'.cached => tkSent'.expiry - tkSent'.at > 60 ]_vars

\* A request was answered from the cache exactly 61 seconds before the expiry,
\* and a second token was issued afterwards.
C31_Witness ==
    /\ tkSent.cached
    /\ tkSent.expiry - tkSent.at = 61
    /\ tkIssued = 1
    /\ tkClock >= tkSent.expiry - 60
    /\ \E c \in 1..MaxCallers : tkCalls[c].pc = "issuing"


\* ---------------------------------------------------------------------------
\* Part 12: the lengths recorded in an App Store snapshot
\* (fetchAppStoreSnapshot, src/web/storeService.ts): every localization row
\* becomes a record of the field values and their precomputed lengths.
\* ---------------------------------------------------------------------------

\* The attribute texts of a localization row: n characters of w bytes each.
AttrTexts ==
    {EmptyText} \cup {[n |-> n, w |-> w] : n \in 1 .. FieldLimit + 1, w \in {1, 3}}
\* `attrs.keywords` and the like: a text or undefined.
AttrValues == AttrTexts \cup {NoText}
SnapFields == {"description", "whatsNew", "keywords"}
AttrRows == [SnapFields -> AttrValues]

\* `attrs.keywords?.length ?? 0`: the number of UTF-16 code units.
lengthOf(v) == IF v = NoText THEN 0 ELSE v.n

\* The record built for one row.
localeSnapshot(attrs) ==
    [built |-> TRUE,
     lengths |-> [f \in SnapFields |-> lengthOf(attrs[f])],
     values |-> attrs]

InitSnapshot ==
    /\ JobsIdle
    /\ TrIdle
    /\ QueueIdle
    /\ ApplyIdle
    /\ RouteIdle
    /\ LocaleIdle
    /\ DiffIdle
    /\ BatchIdle
    /\ LoopIdle
    /\ SyncIdle
    /\ TokenIdle
    /\ PageIdle
    /\ EditIdle
    /\ AutoDiffIdle
    /\ ListsIdle
    /\ RaceIdle
    /\ snapLocale = NoSnapLocale

\* One row of `validRows.map(...)`.
BuildLocaleSnapshot(attrs) ==
    /\ snapLocale' = localeSnapshot(attrs)
    /\ UNCHANGED notNVars

NextSnapshot == \E attrs \in AttrRows : BuildLocaleSnapshot(attrs)

SpecSnapshot == InitSnapshot /\ [][NextSnapshot]_vars

\* ---------------------------------------------------------------------------
\* Properties of the snapshot lengths (Part 12)
\* ---------------------------------------------------------------------------

\* The length of a value in the declared unit of its field: bytes for the
\* App Store keywords (localizationFieldLengthUnit), characters otherwise.
DeclaredLength(f, v) ==
    IF v = NoText THEN 0 ELSE measureLocalizationFieldLength(f, v)

\* C32: every length recorded for a field is taken in the field's declared
\* unit: the precomputed length a snapshot stores for the byte-limited App
\* Store keywords is their byte count, as is the length the translation
\* pipeline compares (C21), and every other recorded length is a character
\* count.
C32_SnapshotLengthsInDeclaredUnit ==
    snapLocale.built =>
        \A f \in SnapFields :
            snapLocale.lengths[f] = DeclaredLength(f, snapLocale.values[f])


\* ---------------------------------------------------------------------------
\* Part 13: the selected app and the change queue of the page
\* (selectApp, syncAndRefresh, handleGenerateTranslations, App.tsx). The queue
\* is one map for the page; here every queued change carries the app whose
\* data it was produced from. The sidebar gets no busy flag, so an app can be
\* selected while a run is in flight.
\* ---------------------------------------------------------------------------

PageApps == {1, 2}
\* The changes a diff, a translation run or an edit can produce for an app.
ChangeIds == {1, 2}
ChangesFor(app) == {[app |-> app, change |-> c] : c \in ChangeIds}

InitPage ==
    /\ JobsIdle
    /\ TrIdle
    /\ QueueIdle
    /\ ApplyIdle
    /\ RouteIdle
    /\ LocaleIdle
    /\ DiffIdle
    /\ BatchIdle
    /\ LoopIdle
    /\ SyncIdle
    /\ TokenIdle
    /\ SnapIdle
    /\ EditIdle
    /\ AutoDiffIdle
    /\ ListsIdle
    /\ RaceIdle
    /\ uiSelected = 0
    /\ uiQueue = {}
    /\ uiRun = NoRun

\* The queue after selectApp(app) has got its answer:
\* `if (previousSelectedId !== app.id) setPendingStoreChanges({})`.
queueAfterSelect(pending, previous, app) == IF previous # app THEN {} ELSE pending

\* selectApp, from the answer of GET /api/apps/:id on.
SelectApp(app) ==
    /\ uiSelected' = app
    /\ uiQueue' = queueAfterSelect(uiQueue, uiSelected, app)
    /\ UNCHANGED uiRun
    /\ UNCHANGED notUVars

\* A field edit or locale change of the user for the app on the page.
EditSelected(c) ==
    /\ uiSelected # 0
    /\ uiQueue' = uiQueue \cup {[app |-> uiSelected, change |-> c]}
    /\ UNCHANGED <<uiSelected, uiRun>>
    /\ UNCHANGED notUVars

\* handleGenerateTranslations up to the fetch: `if (!selectedAppId) return`,
\* the request names the selected app.
StartGenerate ==
    /\ uiSelected # 0
    /\ uiRun = NoRun
    /\ uiRun' = [kind |-> "generate", app |-> uiSelected, pc |-> "stream"]
    /\ UNCHANGED <<uiSelected, uiQueue>>
    /\ UNCHANGED notUVars

\* The stream has ended: the collected locales, if any, are put in the queue
\* (populateQueueFromDiff); an error answer or a throw puts nothing.
GenerateEnds(collected) ==
    /\ uiRun.kind = "generate"
    /\ uiQueue' = uiQueue \cup collected
    /\ uiRun' = NoRun
    /\ UNCHANGED uiSelected
    /\ UNCHANGED notUVars

\* handleSaveConfig: syncAndRefresh(selectedAppId, 'both').
StartSync ==
    /\ uiSelected # 0
    /\ uiRun = NoRun
    /\ uiRun' = [kind |-> "sync", app |-> uiSelected, pc |-> "sync"]
    /\ UNCHANGED <<uiSelected, uiQueue>>
    /\ UNCHANGED notUVars

\* The sync request has answered or thrown and `await loadApps(appId)` has
\* selected the app of the run again.
SyncRefreshed ==
    /\ uiRun.kind = "sync"
    /\ uiRun.pc = "sync"
    /\ uiSelected' = uiRun.app
    /\ uiQueue' = queueAfterSelect(uiQueue, uiSelected, uiRun.app)
    /\ uiRun' = [uiRun EXCEPT !.pc = "iosToPlay"]
    /\ UNCHANGED notUVars

\* One of the two prepare requests of the automatic diff has answered (its
\* entries are put in the queue) or thrown (nothing is).
DiffAnswered(entries) ==
    /\ uiRun.kind = "sync"
    /\ uiRun.pc \in {"iosToPlay", "playToIos"}
    /\ uiQueue' = uiQueue \cup entries
    /\ uiRun' = IF uiRun.pc = "iosToPlay"
                THEN [uiRun EXCEPT !.pc = "playToIos"]
                ELSE NoRun
    /\ UNCHANGED uiSelected
    /\ UNCHANGED notUVars

NextPage ==
    \/ \E app \in PageApps : SelectApp(app)
    \/ \E c \in ChangeIds : EditSelected(c)
    \/ StartGenerate
    \/ \E collected \in SUBSET ChangesFor(uiRun.app) : GenerateEnds(collected)
    \/ StartSync
    \/ SyncRefreshed
    \/ \E entries \in SUBSET ChangesFor(uiRun.app) : DiffAnswered(entries)

SpecPage == InitPage /\ [][NextPage]_vars

\* ---------------------------------------------------------------------------
\* Properties of the page's queue (Part 13)
\* ---------------------------------------------------------------------------

\* C33: the queue only holds changes produced for the app selected at the
\* moment: selecting another app empties it, and the result of a diff or a
\* translation run started for one app is never put in the queue while another
\* app is selected.
C33_QueueOnlyForSelectedApp ==
    \A e \in uiQueue : e.app = uiSelected


\* ---------------------------------------------------------------------------
\* Part 14: the Google Play edit of gpc-sync (src/index.ts) and of a snapshot
\* fetch (fetchPlayStoreSnapshot, src/web/storeService.ts). Google Play wants
\* listing reads and writes inside an edit that is opened, then committed or
\* deleted.
\* ---------------------------------------------------------------------------

\* The number of target locales of one gpc-sync run.
MaxGpcLocales == 2

EditCmds ==
    {[kind |-> "gpc-sync", dryRun |-> d, locales |-> n] :
        d \in BOOLEAN, n \in 0 .. MaxGpcLocales}
      \cup {[kind |-> "snapshot", dryRun |-> FALSE, locales |-> 0]}

InitEdit ==
    /\ JobsIdle
    /\ TrIdle
    /\ QueueIdle
    /\ ApplyIdle
    /\ RouteIdle
    /\ LocaleIdle
    /\ DiffIdle
    /\ BatchIdle
    /\ LoopIdle
    /\ SyncIdle
    /\ TokenIdle
    /\ SnapIdle
    /\ PageIdle
    /\ AutoDiffIdle
    /\ ListsIdle
    /\ RaceIdle
    /\ gpcCmd \in EditCmds
    /\ gpcPc = "start"
    /\ gpcIdx = 0
    /\ gpcEdit = NoEdit

\* The cleanup deletes the edit whatever became of it.
needsDelete_Always(cmd, edit) == edit.opened

\* gpc-sync: `if (client && packageName && editId && !committed)`; the
\* snapshot fetch deletes its edit in every case.
needsDelete(cmd, edit) ==
    IF cmd.kind = "gpc-sync" THEN edit.opened /\ ~edit.committed ELSE edit.opened

\* The configuration is incomplete (no package name): the command throws
\* before an edit is asked for.
ThrowsBeforeEdit ==
    /\ gpcPc = "start"
    /\ gpcPc' = IF gpcCmd.kind = "gpc-sync" THEN "finally" ELSE "ended"
    /\ UNCHANGED <<gpcCmd, gpcIdx, gpcEdit>>
    /\ UNCHANGED notGVars

\* `editId = await client.createEdit(packageName)` returns or throws. The
\* snapshot fetch opens its edit outside its try block.
CreateEdit(ok) ==
    /\ gpcPc = "start"
    /\ IF ok
       THEN /\ gpcEdit' = [gpcEdit EXCEPT !.opened = TRUE]
            /\ gpcPc' = "listings"
       ELSE /\ gpcPc' = IF gpcCmd.kind = "gpc-sync" THEN "finally" ELSE "ended"
            /\ UNCHANGED gpcEdit
    /\ UNCHANGED <<gpcCmd, gpcIdx>>
    /\ UNCHANGED notGVars

\* The listings of the edit are read, or the read throws. The snapshot fetch
\* returns its snapshot from here; gpc-sync goes on to its target locales.
ListingsRead(ok) ==
    /\ gpcPc = "listings"
    /\ gpcPc' = IF ok /\ gpcCmd.kind = "gpc-sync" THEN "loop" ELSE "finally"
    /\ gpcIdx' = IF ok /\ gpcCmd.kind = "gpc-sync" THEN 1 ELSE gpcIdx
    /\ UNCHANGED <<gpcCmd, gpcEdit>>
    /\ UNCHANGED notGVars

\* One target locale of gpc-sync: its listing is written (never in a dry
\* run), it is passed over (dry run, no field to update, no listing, declined),
\* or a translation or the write throws.
LocaleStep(outcome) ==
    /\ gpcPc = "loop"
    /\ gpcIdx <= gpcCmd.locales
    /\ outcome = "written" => ~gpcCmd.dryRun
    /\ gpcEdit' = IF outcome = "written"
                  THEN [gpcEdit EXCEPT !.written = @ + 1]
                  ELSE gpcEdit
    /\ gpcPc' = IF outcome = "threw" THEN "finally" ELSE "loop"
    /\ gpcIdx' = IF outcome = "threw" THEN gpcIdx ELSE gpcIdx + 1
    /\ UNCHANGED gpcCmd
    /\ UNCHANGED notGVars

\* After the loop: `if (!opts.dryRun && anyUpdated) { await commitEdit(...);
\* committed = true; }`: the commit returns or throws.
CommitStep(ok) ==
    /\ gpcPc = "loop"
    /\ gpcIdx > gpcCmd.locales
    /\ gpcEdit' = IF ~gpcCmd.dryRun /\ gpcEdit.written > 0 /\ ok
                  THEN [gpcEdit EXCEPT !.committed = TRUE]
                  ELSE gpcEdit
    /\ gpcPc' = "finally"
    /\ UNCHANGED <<gpcCmd, gpcIdx>>
    /\ UNCHANGED notGVars

\* The finally block: deleteEdit is called where needed; what it throws is
\* ignored.
Cleanup(ok) ==
    /\ gpcPc = "finally"
    /\ gpcEdit' = IF needsDelete(gpcCmd, gpcEdit)
                  THEN [gpcEdit EXCEPT !.discards = @ + 1, !.discarded = ok]
                  ELSE gpcEdit
    /\ gpcPc' = "ended"
    /\ UNCHANGED <<gpcCmd, gpcIdx>>
    /\ UNCHANGED notGVars

NextEdit ==
    \/ ThrowsBeforeEdit
    \/ \E ok \in BOOLEAN : CreateEdit(ok)
    \/ \E ok \in BOOLEAN : ListingsRead(ok)
    \/ \E outcome \in {"written", "passed", "threw"} : LocaleStep(outcome)
    \/ \E ok \in BOOLEAN : CommitStep(ok)
    \/ \E ok \in BOOLEAN : Cleanup(ok)

SpecEdit == InitEdit /\ [][NextEdit]_vars
\* Every awaited call returns or throws in the end.
SpecEditLive == SpecEdit /\ WF_vars(NextEdit)

\* ---------------------------------------------------------------------------
\* Properties of the Google Play edit (Part 14)
\* ---------------------------------------------------------------------------

\* What holds of the edit of a command that has ended.
EditSettled ==
    gpcEdit.opened =>
        IF gpcCmd.kind = "snapshot"
        THEN gpcEdit.discards = 1 /\ ~gpcEdit.committed
        ELSE \/ gpcEdit.committed /\ gpcEdit.discards = 0
             \/ ~gpcEdit.committed /\ gpcEdit.discards = 1

\* C34: every edit gpc-sync has opened is, when the command ends, either
\* committed (only outside a dry run and with at least one listing written) or
\* its deletion has been attempted, never both and never neither; the edit
\* opened for a snapshot fetch is deleted whether the fetch succeeds or fails;
\* and the command ends.
C34_EditCommittedOrDiscarded ==
    /\ [](gpcPc = "ended" => EditSettled)
    /\ [](gpcEdit.committed =>
              /\ ~gpcCmd.dryRun
              /\ gpcEdit.written >= 1
              /\ gpcEdit.discards = 0)
    /\ <>(gpcPc = "ended")

\* A gpc-sync run has ended with its edit committed after writing every
\* listing.
C34_Witness ==
    /\ gpcCmd.kind = "gpc-sync"
    /\ gpcPc = "ended"
    /\ gpcEdit.committed
    /\ gpcEdit.written = MaxGpcLocales


\* ---------------------------------------------------------------------------
\* Part 4, continued: the queue is edited while an apply request is in flight.
\* StoreLocalePanels gets no busy flag, so a field can be edited and a locale
\* added or removed between the request and its response; the response handler
\* passes a function to setPendingStoreChanges and so works on the queue as it
\* is then.
\* ---------------------------------------------------------------------------

\* A field is edited while the request is in flight.
FieldEditInFlight(store, rawLocale, field, nextValue, originalValue) ==
    /\ applyPc = "sent"
    /\ StoreFieldChange(store, rawLocale, field, nextValue, originalValue)

\* A locale is added or removed while the request is in flight.
LocaleChangeInFlight(store, rawLocale, action, supported, inBaseline) ==
    /\ applyPc = "sent"
    /\ QueueLocaleChange(store, rawLocale, action, supported, inBaseline)

\* The one apply of the run is requested.
FirstApply(storeFilter, rulesLoaded, required) ==
    /\ applyReport = NoReport
    /\ ApplyPendingChanges(storeFilter, rulesLoaded, required)

NextApplyEdits ==
    \/ \E storeFilter \in StoreFilters, rulesLoaded \in BOOLEAN, required \in RequiredForSave :
          FirstApply(storeFilter, rulesLoaded, required)
    \/ \E outcome \in Outcomes : ApplyResponse(outcome)
    \/ ApplyRequestFailed
    \/ \E store \in Stores, rawLocale \in RawLocales, nextValue \in Values,
          originalValue \in Values :
          \E field \in FieldKeys(store) :
              FieldEditInFlight(store, rawLocale, field, nextValue, originalValue)
    \/ \E store \in Stores, rawLocale \in RawLocales, action \in {"add", "remove"},
          supported \in BOOLEAN, inBaseline \in BOOLEAN :
          LocaleChangeInFlight(store, rawLocale, action, supported, inBaseline)

\* The queue at the start leaves room for one more entry.
InitApplyEdits ==
    /\ JobsIdle
    /\ TrIdle
    /\ ApplyIdle
    /\ RouteIdle
    /\ LocaleIdle
    /\ DiffIdle
    /\ BatchIdle
    /\ LoopIdle
    /\ SyncIdle
    /\ TokenIdle
    /\ SnapIdle
    /\ PageIdle
    /\ EditIdle
    /\ AutoDiffIdle
    /\ ListsIdle
    /\ RaceIdle
    /\ pendingStoreChanges \in QueuesUpTo(MaxPending - 1)
    /\ editRun = 0
    /\ clearedByRemove = 0

SpecApplyEdits == InitApplyEdits /\ [][NextApplyEdits]_vars

\* The queued change is part of the plan in flight, as it stands in the queue,
\* and its action has succeeded.
SentAndSucceeded(entry, outcome) ==
    \E c \in sent :
        /\ outcome[c] = "ok"
        /\ c.store = entry.store
        /\ c.locale = entry.locale
        /\ IF entry.kind = "locale"
           THEN c.action = entry.action
           ELSE /\ c.action \in {"add", "update"}
                /\ entry.field \in DOMAIN c.fields
                /\ c.fields[entry.field] = entry.newValue

\* C35: a field edit or locale change queued while an apply request is in
\* flight is still in the queue once the response has been processed, unless
\* that very change was part of the plan sent and its action succeeded.
C35_InFlightEditsSurviveResponse ==
    [][\A outcome \in Outcomes :
          ApplyResponse(outcome) =>
              \A k \in DOMAIN pendingStoreChanges :
                  ~SentAndSucceeded(pendingStoreChanges[k], outcome)
                      => /\ k \in DOMAIN pendingStoreChanges'
                         /\ pendingStoreChanges'[k] = pendingStoreChanges[k]]_vars


\* ---------------------------------------------------------------------------
\* Part 15: the automatic diff of syncAndRefresh (App.tsx). After a sync the
\* page asks for prepare-ios-to-play and then for prepare-play-to-ios and puts
\* the entries of each answer in the queue. One locale is followed that both
\* stores list with stored detail; the queue is empty when the sync ends.
\* ---------------------------------------------------------------------------

AutoDiffLocale == "de"

InitAutoDiff ==
    /\ JobsIdle
    /\ TrIdle
    /\ QueueIdle
    /\ ApplyIdle
    /\ RouteIdle
    /\ LocaleIdle
    /\ DiffIdle
    /\ BatchIdle
    /\ LoopIdle
    /\ SyncIdle
    /\ TokenIdle
    /\ SnapIdle
    /\ PageIdle
    /\ EditIdle
    /\ ListsIdle
    /\ RaceIdle
    /\ adDetails \in [Stores -> Details]
    /\ adPc = "synced"

\* The source and the target store of a direction.
SourceStore(direction) == IF direction = "iosToPlay" THEN "app_store" ELSE "play_store"
TargetStore(direction) == IF direction = "iosToPlay" THEN "play_store" ELSE "app_store"

\* fields in the order the route pushes them.
FieldSeq(direction, fields) ==
    LET names == <<TargetField(direction, "title"), TargetField(direction, "short"),
                   TargetField(direction, "full")>>
        present == SelectSeq(names, LAMBDA n : \E fd \in fields : fd.field = n)
    IN  [i \in DOMAIN present |-> CHOOSE fd \in fields : fd.field = present[i]]

\* normalizeIosToPlayDiff / normalizePlayToIosDiff on the answer of a route
\* for the locale: no entry, or one entry for the target store.
DiffAnswer(direction, details) ==
    LET out == PrepareRow([direction |-> direction, situation |-> "listed",
                           source |-> details[SourceStore(direction)],
                           stored |-> details[TargetStore(direction)]])
    IN  IF out.kind # "entry" THEN <<>>
        ELSE <<[targetStore |-> TargetStore(direction),
                targetLocale |-> AutoDiffLocale,
                isNewLocale |-> out.isNewLocale,
                fields |-> FieldSeq(direction, out.fields)]>>

\* The queue after the answer of a prepare request: populateQueueFromDiff
\* when the request succeeded and has entries, nothing otherwise.
queueAfterDiff(prev, direction, details, ok) ==
    IF ok THEN populateQueueFromDiff(prev, DiffAnswer(direction, details)) ELSE prev

\* `await api(prepare-ios-to-play)` answers or throws.
AutoDiffIosToPlay(ok) ==
    /\ adPc = "synced"
    /\ pendingStoreChanges' = queueAfterDiff(pendingStoreChanges, "iosToPlay", adDetails, ok)
    /\ adPc' = IF ok THEN "half" ELSE "halfFailed"
    /\ UNCHANGED <<editRun, clearedByRemove, adDetails>>
    /\ UNCHANGED notQXVars

\* `await api(prepare-play-to-ios)` answers or throws.
AutoDiffPlayToIos(ok) ==
    /\ adPc \in {"half", "halfFailed"}
    /\ pendingStoreChanges' = queueAfterDiff(pendingStoreChanges, "playToIos", adDetails, ok)
    /\ adPc' = IF ok /\ adPc = "half" THEN "diffed" ELSE "diffedInPart"
    /\ UNCHANGED <<editRun, clearedByRemove, adDetails>>
    /\ UNCHANGED notQXVars

\* The field of a detail a store's field name stands for.
WhichOf(field) ==
    CASE field \in {"title", "appName"} -> "title"
      [] field \in {"shortDescription", "subtitle"} -> "short"
      [] OTHER -> "full"

\* The detail of a store once every queued field change for it has been
\* written.
Written(detail, store, pending) ==
    [w \in {"title", "short", "full"} |->
        IF \E k \in DOMAIN pending :
              /\ pending[k].kind = "field"
              /\ pending[k].store = store
              /\ WhichOf(pending[k].field) = w
        THEN (CHOOSE e \in {pending[k] : k \in DOMAIN pending} :
                 e.kind = "field" /\ e.store = store /\ WhichOf(e.field) = w).newValue
        ELSE detail[w]]

\* Every queued change is applied and succeeds: the stores hold the new
\* values and the queue is empty.
ApplyAllSucceeds ==
    /\ adPc \in {"diffed", "diffedInPart"}
    /\ adDetails' = [s \in Stores |-> Written(adDetails[s], s, pendingStoreChanges)]
    /\ pendingStoreChanges' = EmptyMap
    /\ adPc' = IF adPc = "diffed" THEN "applied" ELSE "appliedInPart"
    /\ UNCHANGED <<editRun, clearedByRemove>>
    /\ UNCHANGED notQXVars

NextAutoDiff ==
    \/ \E ok \in BOOLEAN : AutoDiffIosToPlay(ok)
    \/ \E ok \in BOOLEAN : AutoDiffPlayToIos(ok)
    \/ ApplyAllSucceeds

SpecAutoDiff == InitAutoDiff /\ [][NextAutoDiff]_vars

\* ---------------------------------------------------------------------------
\* Properties of the automatic diff (Part 15)
\* ---------------------------------------------------------------------------

\* The two details agree in every mapped field, up to trailing whitespace and
\* the 30 characters of the subtitle.
StoresAgree ==
    LET ios == adDetails["app_store"]
        play == adDetails["play_store"]
    IN  /\ norm(ios.title) = norm(play.title)
        /\ norm(ios.full) = norm(play.full)
        /\ \/ norm(ios.short) = norm(play.short)
           \/ norm(ios.short) = norm(Slice30(play.short))

\* The queue holds a change of a field in one store and one of its
\* counterpart in the other store, each proposing the other's old value.
HoldsBothWays ==
    \E j, k \in DOMAIN pendingStoreChanges :
        /\ pendingStoreChanges[j].kind = "field"
        /\ pendingStoreChanges[k].kind = "field"
        /\ pendingStoreChanges[j].store = "app_store"
        /\ pendingStoreChanges[k].store = "play_store"
        /\ pendingStoreChanges[j].locale = pendingStoreChanges[k].locale
        /\ WhichOf(pendingStoreChanges[j].field) = WhichOf(pendingStoreChanges[k].field)

\* C36: after the automatic diff of a sync has populated an empty queue in
\* both directions, applying every queued change successfully leaves the two
\* stores equal in every mapped field of a locale both list (up to trailing
\* whitespace and the target's length limit), and the queue never holds a
\* change copying X to Y together with one copying Y's old value to X for the
\* same locale and field pair.
C36_AutoDiffConverges ==
    /\ adPc = "applied" => StoresAgree
    /\ ~HoldsBothWays


\* ---------------------------------------------------------------------------
\* Part 16: the queue next to the locale lists of the page (iosLocales,
\* playLocales, App.tsx). The inputs of the queue operations are taken from
\* the lists: a locale action is told whether the list holds the locale, a
\* field is edited for a locale the panel shows, and a diff entry is flagged
\* as a new locale exactly when the target's list does not hold it.
\* ---------------------------------------------------------------------------

InitListed ==
    /\ JobsIdle
    /\ TrIdle
    /\ QueueIdle
    /\ ApplyIdle
    /\ RouteIdle
    /\ LocaleIdle
    /\ DiffIdle
    /\ BatchIdle
    /\ LoopIdle
    /\ SyncIdle
    /\ TokenIdle
    /\ SnapIdle
    /\ PageIdle
    /\ EditIdle
    /\ AutoDiffIdle
    /\ RaceIdle
    /\ baselineLocales \in [Stores -> SUBSET Locales]

\* applyPendingLocaleChanges: the list with the pending adds put in and the
\* pending removes taken out.
applyPendingLocaleChanges(baseLocales, pendingChanges, store) ==
    {l \in Locales :
        LET k == toStoreLocaleChangeKey(store, l)
        IN  IF IsLocale(pendingChanges, k)
            THEN pendingChanges[k].action = "add"
            ELSE l \in baseLocales}

\* The user edits a field of the locale selected in a store panel, which is
\* one of the store's effective locales.
EditShownField(store, locale, field, nextValue, originalValue) ==
    /\ locale \in applyPendingLocaleChanges(baselineLocales[store],
                                            pendingStoreChanges, store)
    /\ StoreFieldChange(store, locale, field, nextValue, originalValue)

\* The user adds or removes a locale of the catalog.
ChangeListedLocale(store, locale, action) ==
    QueueLocaleChange(store, locale, action, TRUE, locale \in baselineLocales[store])

\* The entries of a diff or a translation run against the lists.
ListedDiffResults ==
    {r \in DiffResults :
        \A i \in DOMAIN r :
            r[i].isNewLocale <=> r[i].targetLocale \notin baselineLocales[r[i].targetStore]}

PopulateListed(entries) == PopulateQueue(entries)

\* The list of a store after its succeeded adds and removes.
ListAfter(store, succeeded) ==
    (baselineLocales[store]
        \cup {s.locale : s \in {t \in succeeded : t.store = store /\ t.action = "add"}})
      \ {s.locale : s \in {t \in succeeded : t.store = store /\ t.action = "remove"}}

AllActions(pending) ==
    {[store |-> c.store, locale |-> c.locale, action |-> c.action] :
        c \in BuildChanges(AllEntries(pending, "all"))}

\* Apply with every action of the plan succeeding and no edit in between: the
\* succeeded changes leave the queue and the sync that follows loads the new
\* lists.
ApplyListed ==
    /\ pendingStoreChanges # EmptyMap
    /\ pendingStoreChanges' =
           RemoveSucceeded(pendingStoreChanges, AllActions(pendingStoreChanges))
    /\ baselineLocales' =
           [s \in Stores |-> ListAfter(s, AllActions(pendingStoreChanges))]
    /\ editRun' = 0
    /\ clearedByRemove' = 0
    /\ UNCHANGED notQZVars

NextListed ==
    \/ \E store \in Stores, locale \in Locales, nextValue \in Values,
          originalValue \in Values :
          \E field \in FieldKeys(store) :
              EditShownField(store, locale, field, nextValue, originalValue)
    \/ \E store \in Stores, locale \in Locales, action \in {"add", "remove"} :
          ChangeListedLocale(store, locale, action)
    \/ \E entries \in ListedDiffResults : PopulateListed(entries)
    \/ ClearPendingChanges
    \/ ApplyListed

SpecListed == InitListed /\ [][NextListed]_vars

\* ---------------------------------------------------------------------------
\* Properties of the queue next to the locale lists (Part 16)
\* ---------------------------------------------------------------------------

\* The locale of the store is listed or has a pending add.
ListedOrAdded(store, locale) ==
    \/ locale \in baselineLocales[store]
    \/ /\ IsLocale(pendingStoreChanges, toStoreLocaleChangeKey(store, locale))
       /\ pendingStoreChanges[toStoreLocaleChangeKey(store, locale)].action = "add"

\* C37: after any sequence of queue operations every pending field change
\* refers to a (store, locale) that is in the store's baseline locale list or
\* has a pending locale add, so every update action targets an existing
\* locale.
C37_FieldChangesTargetKnownLocales ==
    \A k \in DOMAIN pendingStoreChanges :
        pendingStoreChanges[k].kind = "field"
            => ListedOrAdded(pendingStoreChanges[k].store, pendingStoreChanges[k].locale)


\* The store's locale has a pending remove.
PendingRemove(pending, store, locale) ==
    /\ IsLocale(pending, toStoreLocaleChangeKey(store, locale))
    /\ pending[toStoreLocaleChangeKey(store, locale)].action = "remove"

NoFieldUnderRemove ==
    \A k \in DOMAIN pendingStoreChanges :
        pendingStoreChanges[k].kind = "field"
            => ~PendingRemove(pendingStoreChanges, pendingStoreChanges[k].store,
                              pendingStoreChanges[k].locale)

NothingLeftAfterRemove ==
    ApplyListed =>
        \A s \in AllActions(pendingStoreChanges) :
            s.action = "remove" =>
                \A k \in DOMAIN pendingStoreChanges' :
                    ~(/\ pendingStoreChanges'[k].store = s.store
                      /\ pendingStoreChanges'[k].locale = s.locale)

\* C38: no field change is pending for a (store, locale) that has a pending
\* locale remove, and once a remove action has succeeded no pending change for
\* its (store, locale) is left in the queue.
C38_RemoveLeavesNoFieldChanges ==
    /\ []NoFieldUnderRemove
    /\ [][NothingLeftAfterRemove]_vars


\* ---------------------------------------------------------------------------
\* Properties of the generate-translations batch (Part 8), continued
\* ---------------------------------------------------------------------------

\* The events of the given types written for a locale.
LocaleEvents(locale, types) ==
    {j \in DOMAIN events : events[j].type \in types /\ events[j].locale = locale}

\* The stream has been closed by the done event, which carries translatedCount.
ClosedByDone ==
    /\ bpc = "closed"
    /\ events # <<>>
    /\ events[Len(events)].type = "done"

\* The count the done event reports is the number of locale_done events.
DoneCountsLocaleDone ==
    ClosedByDone =>
        translatedCount = Cardinality({j \in DOMAIN events : events[j].type = "locale_done"})

\* C39: in a translation batch every locale of the work list produces
\* exactly one locale-level closing event (locale_done or locale_skip) before
\* the done event, and the translated count the done event reports equals the
\* number of locale_done events.
C39_OneClosingEventPerLocale ==
    /\ ClosedByDone =>
          \A i \in DOMAIN bcfg.localeWorkList :
              Cardinality(LocaleEvents(bcfg.localeWorkList[i],
                                       {"locale_done", "locale_skip"})) = 1
    /\ DoneCountsLocaleDone


\* ---------------------------------------------------------------------------
\* Part 17: POST /api/apps/:id/locales/sync and POST /api/apps/:id/locales/apply
\* for the same app and store, side by side (src/web/server.ts). Both routes
\* await the storefront and then replace the stored list in one synchronous
\* piece: sync with the locales of the snapshot it fetched, apply with the
\* stored list changed by its succeeded actions. The storefront reads the
\* locales of a snapshot and performs a write some time before the answer
\* reaches the route.
\* ---------------------------------------------------------------------------

InitRace ==
    /\ JobsIdle
    /\ TrIdle
    /\ QueueIdle
    /\ ApplyIdle
    /\ RouteIdle
    /\ LocaleIdle
    /\ DiffIdle
    /\ BatchIdle
    /\ LoopIdle
    /\ SyncIdle
    /\ TokenIdle
    /\ SnapIdle
    /\ PageIdle
    /\ EditIdle
    /\ AutoDiffIdle
    /\ ListsIdle
    /\ storefrontLocales \in SUBSET Locales
    /\ storedLocales \in SUBSET Locales
    /\ applyReq = [NoApplyReq EXCEPT !.pc = "idle"]
    /\ syncReq = [NoSyncReq EXCEPT !.pc = "idle"]

\* The apply request arrives with one locale add or remove and sends it to
\* the storefront.
ApplyArrives(action, locale) ==
    /\ applyReq.pc = "idle"
    /\ applyReq' = [pc |-> "sent", action |-> action, locale |-> locale, ok |-> FALSE]
    /\ UNCHANGED <<storefrontLocales, storedLocales, syncReq>>
    /\ UNCHANGED notCVars

\* The storefront performs the write, or refuses it.
StorefrontWrites(ok) ==
    /\ applyReq.pc = "sent"
    /\ storefrontLocales' =
          IF ~ok THEN storefrontLocales
          ELSE IF applyReq.action = "add"
               THEN storefrontLocales \cup {applyReq.locale}
               ELSE storefrontLocales \ {applyReq.locale}
    /\ applyReq' = [applyReq EXCEPT !.pc = "written", !.ok = ok]
    /\ UNCHANGED <<storedLocales, syncReq>>
    /\ UNCHANGED notCVars

\* The list the sync route stores: the locales of its snapshot.
listAfterSync(current, snapshotLocales) == snapshotLocales

\* The write has settled at the route: with a succeeded action the stored
\* list is read, changed and replaced.
ApplySettles ==
    /\ applyReq.pc = "written"
    /\ storedLocales' =
          IF applyReq.ok
          THEN applyLocaleChangesToList(storedLocales,
                   <<[store |-> "app_store", locale |-> applyReq.locale,
                      action |-> applyReq.action]>>)
          ELSE storedLocales
    /\ applyReq' = [applyReq EXCEPT !.pc = "done"]
    /\ UNCHANGED <<storefrontLocales, syncReq>>
    /\ UNCHANGED notCVars

\* The sync request arrives and asks the storefront for a snapshot.
SyncArrives ==
    /\ syncReq.pc = "idle"
    /\ syncReq' = [syncReq EXCEPT !.pc = "asked"]
    /\ UNCHANGED <<storefrontLocales, storedLocales, applyReq>>
    /\ UNCHANGED notCVars

\* The storefront answers the request for the localizations; the fetch goes
\* on with further requests (screenshots, app infos).
StorefrontReads ==
    /\ syncReq.pc = "asked"
    /\ syncReq' = [pc |-> "read", locales |-> storefrontLocales]
    /\ UNCHANGED <<storefrontLocales, storedLocales, applyReq>>
    /\ UNCHANGED notCVars

\* The snapshot reaches the route, which replaces the stored list, or the
\* fetch throws and the list stays.
SyncSettles(ok) ==
    /\ syncReq.pc = "read"
    /\ storedLocales' = IF ok THEN listAfterSync(storedLocales, syncReq.locales)
                        ELSE storedLocales
    /\ syncReq' = [syncReq EXCEPT !.pc = "done"]
    /\ UNCHANGED <<storefrontLocales, applyReq>>
    /\ UNCHANGED notCVars

NextRace ==
    \/ \E action \in {"add", "remove"}, locale \in Locales : ApplyArrives(action, locale)
    \/ \E ok \in BOOLEAN : StorefrontWrites(ok)
    \/ ApplySettles
    \/ SyncArrives
    \/ StorefrontReads
    \/ \E ok \in BOOLEAN : SyncSettles(ok)

SpecRace == InitRace /\ [][NextRace]_vars

\* ---------------------------------------------------------------------------
\* Properties of sync and apply side by side (Part 17)
\* ---------------------------------------------------------------------------

\* C40: when a sync request and an apply request for the same app and store
\* interleave, a locale whose add succeeded in the apply is in the stored list
\* once both have completed, and a locale whose remove succeeded is not.
C40_AppliedChangeSurvivesSync ==
    (applyReq.pc = "done" /\ syncReq.pc = "done" /\ applyReq.ok)
        => IF applyReq.action = "add"
           THEN applyReq.locale \in storedLocales
           ELSE applyReq.locale \notin storedLocales

====
